---- MODULE Spec2Model ----
(***************************************************************************)
(* padertorch: the execution loop of Trainer.train (train/trainer.py).     *)
(*                                                                         *)
(* One behaviour is the life of a trainer: train() on a constructed        *)
(* trainer and, for the trainers that are resumed, load_checkpoint and     *)
(* train() again.  The position of the running call is pc; every action is *)
(* one statement group.  The hook classes and the IntervalTrigger live in  *)
(* train/hooks.py and train/trigger.py, which are not part of the sources  *)
(* at hand: they are modelled from the written specification (sections    *)
(* 4.1 and 4.2).                                                           *)
(***************************************************************************)
EXTENDS Integers, Sequences, FiniteSets, TLC

VARIABLES
    pc,                  \* position of the train() call
    iteration,           \* Trainer.iteration
    epoch,               \* Trainer.epoch
    train_iterator,      \* length of the training sequence (examples 1..n)
    validation_iterator, \* length of the validation sequence
    checkpoint_step,     \* (period, unit) of Trainer.checkpoint_trigger
    validate_step,       \* Trainer.validate_step
    summary_step,        \* Trainer.summary_step
    max_step,            \* Trainer.max_step
    user_hooks,          \* the hooks argument of train(), as passed
    losses,              \* review['losses'] of the model: key -> value
    loss_weights,        \* Trainer.loss_weights (none: None)
    optimizer_mocked,    \* optimizer.step is patched by a mock
    use_cuda,            \* Trainer.use_cuda: a gpu was given
    gpu_device,          \* Trainer.gpu_device (0 stands for None without a gpu)
    start,               \* the counters train() was called with
    hooks,               \* the local list hooks of train(), once sorted
    hidx,                \* index of the hook the running dispatch loop is at
    last,                \* last-fired marker of every trigger
    dataPos,             \* examples consumed from data_iterator
    example,             \* the example fetched in this loop pass (0: none)
    valPos,              \* examples consumed by the running validation pass
    mode,                \* model mode flag: "train" or "eval"
    params,              \* model parameters: the examples applied by optimizer.step
    optimizer,           \* optimizer state: the updates it has made
    device,              \* where the model and the optimizer state are
    step_calls,          \* the calls made by the latest training step
    backpropagated,      \* the losses whose backward() that step has called
    timings,             \* Trainer.timer.timings: name -> number of samples
    start_non_validation_time,  \* the attribute _start_non_validation_time is set
    restarts,            \* load_checkpoint calls the trainer's user still makes
    previous,            \* the last load_checkpoint call: its path, the error
                         \* it raised, and the trainer as it found it
    files,               \* checkpoints directory: iteration -> saved record
    summary,             \* accumulators of SummaryHook and ValidationHook
    exc,                 \* the exception in flight ("none" when there is none)
    invoked,             \* the latest call of a function outside train()
    log                  \* the calls made so far, in order

config == <<train_iterator, validation_iterator, checkpoint_step,
            validate_step, summary_step, max_step, user_hooks, losses,
            loss_weights, optimizer_mocked, use_cuda, gpu_device, start>>

resumption == <<restarts, previous>>

timer == <<timings, start_non_validation_time>>

vars == <<pc, iteration, epoch, config, resumption, timer, hooks, hidx, last,
          dataPos, example, valPos, mode, params, optimizer, device,
          step_calls, backpropagated, files, summary, exc, invoked, log>>

----------------------------------------------------------------------------
(* Bounds of the model.                                                    *)

MaxTrainLen == 2
MaxValLen == 2
MaxPeriod == 2
MaxStop == 4
MaxUserHooks == 2
MaxStart == 1
MaxLosses == 2
MaxWeight == 2
MaxRestarts == 1
MaxGpu == 1
MaxLength == 4
MaxKernel == 3
MaxDilation == 2
MaxStride == 3

\* Cap of the epoch counter: reached only by runs that advance epochs
\* without ever stopping (empty training sequence on a resumed trainer).
MaxEpoch == MaxStart + MaxPeriod + 2

----------------------------------------------------------------------------
(* hooks.py (not in the sources): priorities of the hook classes.          *)

PriorityEnd == 0
PriorityDefault == 1
PrioritySummary == 2
PriorityValidation == 3
PriorityCheckpoint == 4

Priorities == PriorityEnd .. PriorityCheckpoint

Units == {"iteration", "epoch"}

\* A user hook is a BaseHook subclass: pre_function and post_function do
\* nothing to the trainer; only its priority matters to the loop.
UserHook(p, n) == [kind |-> "user", priority |-> p, id |-> n]

SummaryHook(n) == [kind |-> "summary", priority |-> PrioritySummary, id |-> n]

ValidationHook(n) ==
    [kind |-> "validation", priority |-> PriorityValidation, id |-> n]

StopTrainingHook(n) == [kind |-> "stop", priority |-> PriorityEnd, id |-> n]

----------------------------------------------------------------------------
(* trigger.py (not in the sources): Trigger of section 4.1.                *)

Counter(unit, it, ep) == IF unit = "iteration" THEN it ELSE ep

\* fires(iteration, epoch): the counter of the unit has advanced by at
\* least period since the last recorded firing.
TriggerFires(step, marker, it, ep) ==
    Counter(step.unit, it, ep)
        - Counter(step.unit, marker.iteration, marker.epoch) >= step.period

\* set_last(iteration, epoch), and the marker update of a firing.
SetLast(it, ep) == [iteration |-> it, epoch |-> ep]

\* A trigger whose marker stays at its anchor: once the first period has
\* passed, every poll fires.
PollKeepsMarker(t, step) == last

\* One poll of the trigger named t: the marker moves only when it fires.
Poll(t, step) ==
    IF TriggerFires(step, last[t], iteration, epoch)
    THEN [last EXCEPT ![t] = SetLast(iteration, epoch)]
    ELSE last

TriggerNames == {"summary", "validation", "stop", "checkpoint"}

----------------------------------------------------------------------------
(* Trainer.get_hooks: append the three default hooks, sort by priority,    *)
(* highest first.  sorted(..., reverse=True) is stable.                    *)

RECURSIVE InsertByPriority(_, _)
InsertByPriority(h, s) ==
    IF s = <<>> THEN <<h>>
    ELSE IF Head(s).priority >= h.priority
         THEN <<Head(s)>> \o InsertByPriority(h, Tail(s))
         ELSE <<h>> \o s

RECURSIVE InsertBeforeEqual(_, _)
InsertBeforeEqual(h, s) ==
    IF s = <<>> THEN <<h>>
    ELSE IF Head(s).priority > h.priority
         THEN <<Head(s)>> \o InsertBeforeEqual(h, Tail(s))
         ELSE <<h>> \o s

RECURSIVE SortedReversedTies(_)
SortedReversedTies(s) ==
    IF s = <<>> THEN <<>>
    ELSE InsertBeforeEqual(s[Len(s)], SortedReversedTies(SubSeq(s, 1, Len(s) - 1)))

RECURSIVE SortedByPriority(_)
SortedByPriority(s) ==
    IF s = <<>> THEN <<>>
    ELSE InsertByPriority(s[Len(s)], SortedByPriority(SubSeq(s, 1, Len(s) - 1)))

\* sorted(hooks, key=priority)[::-1]: highest first, equal priorities in
\* reversed insertion order.
get_hooks_reversed(passed) ==
    LET n == Len(passed)
        appended == passed \o <<SummaryHook(n + 1), ValidationHook(n + 2),
                                StopTrainingHook(n + 3)>>
    IN  SortedReversedTies(appended)

\* sorted(hooks, key=priority) without reverse=True: lowest first.
get_hooks_ascending(passed) ==
    LET sorted == get_hooks_reversed(passed)
    IN  [k \in 1 .. Len(sorted) |-> sorted[Len(sorted) + 1 - k]]

get_hooks(passed) ==
    LET n == Len(passed)
        appended == passed \o <<SummaryHook(n + 1), ValidationHook(n + 2),
                                StopTrainingHook(n + 3)>>
    IN  SortedByPriority(appended)

----------------------------------------------------------------------------
(* The log of calls.                                                       *)

Event(op, h) == [op |-> op, hook |-> h, it |-> iteration, ep |-> epoch]

----------------------------------------------------------------------------
(* Trainer.save_checkpoint: the artifact ckpt_<iteration>.                 *)

\* Trainer.cpu and Trainer.cuda: model and optimizer moved together.
cpu == [model |-> "cpu", optimizer |-> "cpu"]

cuda(d) == [model |-> "cuda:" \o ToString(d), optimizer |-> "cuda:" \o ToString(d)]

\* Lines 306-307: where model and optimizer are when torch.save runs.
Serialized == IF use_cuda THEN cpu ELSE device

\* save_checkpoint without lines 318-319: the model stays on the host.
RestoredOnHost == IF use_cuda THEN cpu ELSE device

\* Lines 318-319: where they are when save_checkpoint returns.
Restored == IF use_cuda THEN cuda(gpu_device) ELSE device

\* The saved dict without the optimizer entry of lines 313-314.
CheckpointWithoutOptimizer ==
    [model |-> params, iteration |-> iteration, epoch |-> epoch,
     optimizer |-> 0, device |-> Serialized]

Checkpoint ==
    [model |-> params, iteration |-> iteration, epoch |-> epoch,
     optimizer |-> optimizer, device |-> Serialized]

save_checkpoint ==
    [i \in DOMAIN files \cup {iteration} |->
        IF i = iteration THEN Checkpoint ELSE files[i]]

\* The checkpoints directory after the save_checkpoint calls made so far:
\* every name in it, and the artifact the name resolves to.  The only
\* names written are the numbered ones, f'ckpt_{self.iteration}'; each is
\* a regular file and resolves to itself.
CheckpointName(i) == "ckpt_" \o ToString(i)

Directory ==
    [name \in {CheckpointName(i) : i \in DOMAIN files} |-> name]

----------------------------------------------------------------------------
(* Trainer.load_checkpoint, lines 336-348: what the trainer holds after    *)
(* loading the record checkpoint_dict.                                     *)

\* self.iteration = iteration, without the + 1 of line 342.
load_checkpoint_same_iteration(checkpoint_dict) ==
    [params |-> checkpoint_dict.model,
     iteration |-> checkpoint_dict.iteration,
     epoch |-> checkpoint_dict.epoch,
     optimizer |-> checkpoint_dict.optimizer]

load_checkpoint(checkpoint_dict) ==
    [params |-> checkpoint_dict.model,
     iteration |-> checkpoint_dict.iteration + 1,
     epoch |-> checkpoint_dict.epoch,
     optimizer |-> checkpoint_dict.optimizer]

\* assert os.path.isfile(checkpoint_path) fails with AssertionError; with
\* assertions compiled out (python -O) torch.load fails on the missing
\* file instead.
MissingFileErrors == {"AssertionError", "FileNotFoundError"}

----------------------------------------------------------------------------
(* ContextTimerDict, lines 26-69.  A sample is the duration of one block;  *)
(* the model keeps how many samples each name has.                         *)

TimerNames ==
    {"time_per_step", "time_per_data_loading", "time_per_train_step",
     "validation_time", "non_validation_time"}

\* timings[name].append(...)
AppendSample(t, name) == [t EXCEPT ![name] = @ + 1]

\* __getitem__ written with try/finally around the yield: the sample is
\* appended however the block ends.
TimerScopeFinally(t, name, raised) == AppendSample(t, name)

\* with timer[name]: block.  The context manager is a generator without a
\* handler around its yield: when the block raises, the exception is
\* thrown into the generator at the yield, the append after it is never
\* reached, and the exception leaves the with statement.
TimerScope(t, name, raised) == IF raised THEN t ELSE AppendSample(t, name)

----------------------------------------------------------------------------
(* Trainer.backward, lines 248-259.                                        *)

LossKeys == 1 .. MaxLosses

\* loss_weights=None, and a dictionary of weights.
NoWeights == [none |-> TRUE, weight |-> <<>>]

Weights(w) == [none |-> FALSE, weight |-> w]

\* The sum of the losses with loss_weights left out of it.
RECURSIVE UnweightedSum(_)
UnweightedSum(keys) ==
    IF keys = {} THEN 0
    ELSE LET key == CHOOSE k \in keys : TRUE
         IN  losses[key] + UnweightedSum(keys \ {key})

\* loss += weight * value over review['losses'].items(), from loss = 0.
RECURSIVE WeightedSum(_)
WeightedSum(keys) ==
    IF keys = {} THEN 0
    ELSE LET key == CHOOSE k \in keys : TRUE
             weight == IF loss_weights.none THEN 1 ELSE loss_weights.weight[key]
         IN  weight * losses[key] + WeightedSum(keys \ {key})

\* backward without the test of lines 251-255.
backward_unchecked ==
    IF ~loss_weights.none /\ ~(DOMAIN losses \subseteq DOMAIN loss_weights.weight)
    THEN [error |-> "KeyError", loss |-> 0]
    ELSE IF DOMAIN losses = {}
    THEN [error |-> "AttributeError", loss |-> 0]
    ELSE [error |-> "none", loss |-> WeightedSum(DOMAIN losses)]

\* The outcome of backward(review): the exception it raises, or the loss
\* whose backward() is called.  A key without a weight is a KeyError; with
\* no loss at all the float 0. has no backward().
backward ==
    IF loss_weights.none /\ Cardinality(DOMAIN losses) # 1
    THEN [error |-> "Exception", loss |-> 0]
    ELSE IF ~loss_weights.none /\ ~(DOMAIN losses \subseteq DOMAIN loss_weights.weight)
    THEN [error |-> "KeyError", loss |-> 0]
    ELSE IF DOMAIN losses = {}
    THEN [error |-> "AttributeError", loss |-> 0]
    ELSE [error |-> "none", loss |-> WeightedSum(DOMAIN losses)]

----------------------------------------------------------------------------
(* Trainer.clip_grad, lines 272-301.  The clip norm is what the optimizers *)
(* return: a scalar, a list, or a mapping, which may be nested.  A mapping *)
(* is known by its leaves: the path of keys that leads to each value.      *)

MaxDepth == 2
MaxList == 2

NormKeys == {"a", "b"}

\* prefix=None is the empty sequence, prefix='p' the sequence <<"p">>.
Prefixes == {<<>>} \cup {<<p>> : p \in NormKeys}

Paths == UNION {[1 .. d -> NormKeys] : d \in 1 .. MaxDepth}

IsPrefixOf(p, q) == Len(p) < Len(q) /\ SubSeq(q, 1, Len(p)) = p

\* The leaves of a mapping: no path to a value leads through a value.
Mappings == {m \in SUBSET Paths : \A p, q \in m : ~IsPrefixOf(p, q)}

GradNorms ==
    {[kind |-> "scalar", length |-> 0, leaves |-> {}]}
        \cup {[kind |-> "list", length |-> n, leaves |-> {}] : n \in 0 .. MaxList}
        \cup {[kind |-> "dict", length |-> 0, leaves |-> m] : m \in Mappings}

\* prefix_ of lines 275-278.
Prefix_(prefix) == IF prefix = <<>> THEN "" ELSE prefix[1] \o "_"

\* The key flatten gives to a leaf: the keys of its path joined by '.'.
RECURSIVE flatten(_)
flatten(path) ==
    IF Len(path) = 1 THEN path[1]
    ELSE path[1] \o "." \o flatten(Tail(path))

\* The entries the three branches of lines 285-300 write.
DictEntries(prefix, grad_norm) ==
    [scalars |-> {Prefix_(prefix) \o "grad_norm_" \o flatten(p) :
                     p \in grad_norm.leaves},
     histograms |-> {Prefix_(prefix) \o "grad_norm_" \o flatten(p) \o "_" :
                        p \in grad_norm.leaves}]

ListEntries(prefix, grad_norm) ==
    [scalars |-> {Prefix_(prefix) \o "grad_norm_" \o ToString(i) :
                     i \in 0 .. grad_norm.length - 1},
     histograms |-> {Prefix_(prefix) \o "grad_norm_" \o ToString(i) \o "_" :
                        i \in 0 .. grad_norm.length - 1}]

ScalarEntries(prefix) ==
    [scalars |-> {Prefix_(prefix) \o "grad_norm"},
     histograms |-> {Prefix_(prefix) \o "grad_norm_"}]

Returned(entries) ==
    [error |-> "none", scalars |-> entries.scalars,
     histograms |-> entries.histograms]

Merged(a, b) ==
    [scalars |-> a.scalars \cup b.scalars,
     histograms |-> a.histograms \cup b.histograms]

\* The outcomes of clip_grad(prefix) for a clip norm.  The test for a
\* mapping (line 285) is an if statement of its own, and the else of line
\* 297 belongs to the test for a list: a mapping also takes the else
\* branch, which stores the mapping itself as the scalar 'grad_norm' and
\* passes it to torch.Tensor([...]).  torch either rejects the mapping
\* (TypeError, nothing is returned) or makes the histogram of it.
clip_grad(prefix, grad_norm) ==
    CASE grad_norm.kind = "dict" ->
            {[error |-> "TypeError", scalars |-> {}, histograms |-> {}],
             Returned(Merged(DictEntries(prefix, grad_norm),
                             ScalarEntries(prefix)))}
      [] grad_norm.kind = "list" -> {Returned(ListEntries(prefix, grad_norm))}
      [] OTHER -> {Returned(ScalarEntries(prefix))}

----------------------------------------------------------------------------
(* Construction: Trainer.__init__.                                         *)

StepChoices == [period : 1 .. MaxPeriod, unit : Units]

MaxStepChoices ==
    [period : 1 .. MaxStop, unit : {"iteration"}]
        \cup [period : 1 .. MaxPeriod, unit : {"epoch"}]

RECURSIVE SeqsUpTo(_, _)
SeqsUpTo(S, n) ==
    IF n = 0 THEN {<<>>}
    ELSE SeqsUpTo(S, n - 1)
            \cup {Append(s, x) : s \in {t \in SeqsUpTo(S, n - 1) : Len(t) = n - 1},
                                 x \in S}

UserHookLists ==
    {[i \in 1 .. Len(ps) |-> UserHook(ps[i], i)] : ps \in SeqsUpTo(Priorities, MaxUserHooks)}

\* iteration = epoch = 0, or the counters load_checkpoint sets from a
\* record (k, e): iteration = k + 1, epoch = e.
StartCounters ==
    {SetLast(0, 0)}
        \cup {SetLast(k + 1, e) : k \in 0 .. MaxStart - 1, e \in 0 .. MaxStart}

\* The defaults of Trainer.__init__ (lines 86-89): (1, 'epoch').
DefaultStep == [period |-> 1, unit |-> "epoch"]

\* A model whose review has the single loss 1, of value 1.
OneLoss == [k \in {1} |-> 1]

\* loss_weights, optimizer.step and the user's later calls are the usual
\* ones unless a family of trainers says otherwise: no weights, a real
\* optimizer, no load_checkpoint after train().
Config(c, n, v, ck, va, su, mx, hs) ==
    [start |-> c, train |-> n, val |-> v, checkpoint |-> ck, validate |-> va,
     summary |-> su, max |-> mx, hooks |-> hs, losses |-> OneLoss,
     loss_weights |-> NoWeights, mocked |-> FALSE, cuda |-> FALSE, gpu |-> 0,
     restarts |-> 0]

\* Fresh trainers without user hooks: every schedule of checkpoint,
\* validation and stop over every training and validation sequence.
ScheduleConfigs ==
    {Config(SetLast(0, 0), n, v, ck, va, DefaultStep, mx, <<>>) :
        n \in 0 .. MaxTrainLen, v \in 0 .. MaxValLen,
        ck \in StepChoices, va \in StepChoices, mx \in MaxStepChoices}

\* Fresh trainers with user hooks of every priority and every summary
\* schedule.
HookConfigs ==
    {Config(SetLast(0, 0), n, MaxValLen, DefaultStep, DefaultStep, su, DefaultStep, hs) :
        n \in 1 .. MaxTrainLen, su \in StepChoices, hs \in UserHookLists}

\* Trainers constructed with init_checkpoint.
ResumeConfigs ==
    {Config(c, n, 1, ck, DefaultStep, DefaultStep, mx, <<>>) :
        c \in StartCounters, n \in 0 .. MaxTrainLen, ck \in StepChoices,
        mx \in MaxStepChoices}

\* The reviews of the models: every set of loss keys, the loss of key k
\* having the value k.
LossDicts == {[k \in keys |-> k] : keys \in SUBSET LossKeys}

WeightChoices ==
    {NoWeights}
        \cup UNION {{Weights(w) : w \in [keys -> 1 .. MaxWeight]} :
                        keys \in SUBSET LossKeys}

\* Fresh trainers over every review and every loss_weights.
LossConfigs ==
    {[Config(SetLast(0, 0), n, 1, DefaultStep, DefaultStep, DefaultStep,
             DefaultStep, <<>>)
        EXCEPT !.losses = ls, !.loss_weights = lw] :
        n \in 1 .. MaxTrainLen, ls \in LossDicts, lw \in WeightChoices}

\* Fresh trainers whose optimizer.step is a mock (runtime_tests.test_run).
MockConfigs ==
    {[Config(SetLast(0, 0), n, 1, ck, DefaultStep, DefaultStep, mx, <<>>)
        EXCEPT !.mocked = TRUE] :
        n \in 1 .. MaxTrainLen, ck \in StepChoices, mx \in MaxStepChoices}

\* Fresh trainers whose user calls load_checkpoint and train() again
\* after train() has ended: every checkpoint schedule, a training sequence
\* that a run passes more than once.
RestartConfigs ==
    {[Config(SetLast(0, 0), MaxTrainLen, 0, ck, DefaultStep, DefaultStep, mx, <<>>)
        EXCEPT !.restarts = MaxRestarts] :
        ck \in StepChoices,
        mx \in {[period |-> p, unit |-> "iteration"] : p \in 1 .. MaxPeriod}}

\* Fresh trainers on an accelerator: Trainer(..., gpu=d).
CudaConfigs ==
    {[Config(SetLast(0, 0), n, 1, ck, DefaultStep, DefaultStep, DefaultStep, <<>>)
        EXCEPT !.cuda = TRUE, !.gpu = d] :
        n \in 1 .. MaxTrainLen, ck \in StepChoices, d \in 0 .. MaxGpu}

Configs ==
    ScheduleConfigs \cup HookConfigs \cup ResumeConfigs \cup LossConfigs
        \cup MockConfigs \cup RestartConfigs \cup CudaConfigs

NoPrevious ==
    [resumed |-> FALSE, error |-> "none", loaded |-> 0, params |-> <<>>,
     optimizer |-> 0, iteration |-> 0, epoch |-> 0]

\* No function outside train() has been called.
NoCall == [op |-> "none"]

Init ==
    /\ pc = "constructed"
    /\ \E c \in Configs :
        /\ start = c.start
        /\ iteration = c.start.iteration
        /\ epoch = c.start.epoch
        /\ train_iterator = c.train
        /\ validation_iterator = c.val
        /\ checkpoint_step = c.checkpoint
        /\ validate_step = c.validate
        /\ summary_step = c.summary
        /\ max_step = c.max
        /\ user_hooks = c.hooks
        /\ losses = c.losses
        /\ loss_weights = c.loss_weights
        /\ optimizer_mocked = c.mocked
        /\ use_cuda = c.cuda
        /\ gpu_device = c.gpu
        /\ device = IF c.cuda THEN cuda(c.gpu) ELSE cpu
        /\ restarts = c.restarts
    /\ previous = NoPrevious
    /\ hooks = <<>>
    /\ hidx = 1
    /\ last = [t \in TriggerNames |-> SetLast(0, 0)]
    /\ dataPos = 0
    /\ example = 0
    /\ valPos = 0
    /\ mode = "train"
    /\ params = <<>>
    /\ optimizer = 0
    /\ step_calls = <<>>
    /\ backpropagated = <<>>
    /\ timings = [name \in TimerNames |-> 0]
    /\ start_non_validation_time = FALSE
    /\ files = <<>>
    /\ summary = [training |-> 0, validation |-> 0]
    /\ exc = "none"
    /\ invoked = NoCall
    /\ log = <<>>

----------------------------------------------------------------------------
(* Trainer.train, lines 148-164: everything before the main loop.  The     *)
(* first pass of both for-loops binds epoch and iteration to their own     *)
(* values and opens the data iterator.                                     *)

\* train() without lines 162-164: the triggers keep the marker they were
\* constructed with.
TrainStartWithoutSetLast ==
    /\ pc = "constructed"
    /\ hooks' = get_hooks(user_hooks)
    /\ mode' = "train"
    /\ dataPos' = 0
    /\ hidx' = 1
    /\ pc' = "pre"
    /\ UNCHANGED <<iteration, epoch, config, device, invoked, resumption,
                   timer, optimizer, step_calls, backpropagated, last,
                   example, valPos, params, files, summary, exc, log>>

TrainStart ==
    /\ pc = "constructed"
    /\ hooks' = get_hooks(user_hooks)
    /\ last' = [t \in TriggerNames |-> SetLast(iteration, epoch)]
    /\ mode' = "train"
    /\ dataPos' = 0
    /\ hidx' = 1
    /\ pc' = "pre"
    /\ UNCHANGED <<iteration, epoch, config, device, invoked, resumption,
                   timer, optimizer, step_calls, backpropagated, example,
                   valPos, params, files, summary, exc, log>>

\* for hook in hooks: the dispatch loop moves to the next hook, or leaves
\* the for statement after the last one.
AfterPre ==
    IF hidx < Len(hooks)
    THEN pc' = "pre" /\ hidx' = hidx + 1
    ELSE pc' = "checkpoint" /\ hidx' = 1

\* except Exception: pass in place of except StopTraining: pass: whatever
\* is raised ends train() the way StopTraining does.
RaiseAsStopTraining(e) == pc' = "finally_dump" /\ exc' = "StopTraining"

\* The finally clause is entered with the exception e in flight.
Raise(e) == pc' = "finally_dump" /\ exc' = e

----------------------------------------------------------------------------
(* hook.pre_function(self), line 174, one action per hook class.           *)

PreUser ==
    /\ pc = "pre"
    /\ hooks[hidx].kind = "user"
    /\ log' = Append(log, Event("pre", hooks[hidx].id))
    /\ AfterPre
    /\ UNCHANGED <<iteration, epoch, config, device, invoked, resumption,
                   timer, optimizer, step_calls, backpropagated, hooks, last,
                   dataPos, example, valPos, mode, params, files, summary,
                   exc>>

\* SummaryHook (section 4.2): on its trigger, write the accumulated
\* entries and clear the accumulator.
PreSummary ==
    /\ pc = "pre"
    /\ hooks[hidx].kind = "summary"
    /\ last' = Poll("summary", summary_step)
    /\ IF TriggerFires(summary_step, last["summary"], iteration, epoch)
       THEN /\ summary' = [summary EXCEPT !.training = 0]
            /\ log' = log \o <<Event("pre", hooks[hidx].id),
                               Event("dump", hooks[hidx].id)>>
       ELSE /\ log' = Append(log, Event("pre", hooks[hidx].id))
            /\ UNCHANGED summary
    /\ AfterPre
    /\ UNCHANGED <<iteration, epoch, config, device, invoked, resumption,
                   timer, optimizer, step_calls, backpropagated, hooks,
                   dataPos, example, valPos, mode, params, files, exc>>

\* ValidationHook (section 4.2): on its trigger, run trainer.validate over
\* the whole validation sequence.  Entering the generator switches the
\* model to evaluation mode (line 230).
PreValidation ==
    /\ pc = "pre"
    /\ hooks[hidx].kind = "validation"
    /\ last' = Poll("validation", validate_step)
    /\ IF TriggerFires(validate_step, last["validation"], iteration, epoch)
       THEN /\ log' = log \o <<Event("pre", hooks[hidx].id),
                               Event("validate", hooks[hidx].id)>>
            /\ pc' = "validating"
            /\ valPos' = 0
            /\ mode' = "eval"
            /\ timings' = IF start_non_validation_time
                          THEN AppendSample(timings, "non_validation_time")
                          ELSE timings
            /\ UNCHANGED hidx
       ELSE /\ log' = Append(log, Event("pre", hooks[hidx].id))
            /\ AfterPre
            /\ UNCHANGED <<valPos, mode, timings>>
    /\ UNCHANGED <<iteration, epoch, config, device, invoked, resumption,
                   start_non_validation_time, optimizer, step_calls,
                   backpropagated, hooks, dataPos, example, params, files,
                   summary, exc>>

\* StopTrainingHook (section 4.2): on its trigger, raise StopTraining.
PreStop ==
    /\ pc = "pre"
    /\ hooks[hidx].kind = "stop"
    /\ last' = Poll("stop", max_step)
    /\ IF TriggerFires(max_step, last["stop"], iteration, epoch)
       THEN /\ log' = log \o <<Event("pre", hooks[hidx].id),
                               Event("StopTraining", hooks[hidx].id)>>
            /\ Raise("StopTraining")
            /\ UNCHANGED hidx
       ELSE /\ log' = Append(log, Event("pre", hooks[hidx].id))
            /\ AfterPre
            /\ UNCHANGED exc
    /\ UNCHANGED <<iteration, epoch, config, device, invoked, resumption,
                   timer, optimizer, step_calls, backpropagated, hooks,
                   dataPos, example, valPos, mode, params, files, summary>>

----------------------------------------------------------------------------
(* Trainer.validate, lines 220-239, driven by the ValidationHook.          *)

\* validate without the try/finally of lines 231-239: an exception of
\* validation_step leaves the model in evaluation mode.
ValidationStepWithoutFinally(ok) ==
    /\ pc = "validating"
    /\ valPos < validation_iterator
    /\ IF ok
       THEN /\ log' = Append(log, Event("validation_step", valPos + 1))
            /\ valPos' = valPos + 1
            /\ summary' = [summary EXCEPT !.validation = @ + 1]
            /\ UNCHANGED <<pc, mode, exc, timer>>
       ELSE /\ log' = Append(log, Event("validation_step_failed", valPos + 1))
            /\ timings' = TimerScope(timings, "validation_time", TRUE)
            /\ start_non_validation_time' = TRUE
            /\ Raise("Exception")
            /\ UNCHANGED <<valPos, mode, summary>>
    /\ UNCHANGED <<iteration, epoch, config, device, invoked, resumption,
                   optimizer, step_calls, backpropagated, hooks, hidx, last,
                   dataPos, example, params, files>>

\* One yield of the generator: validation_step on the next example.  The
\* step may fail; the finally clause of the generator then restores the
\* training mode and the exception leaves pre_function and the loop.
ValidationStep(ok) ==
    /\ pc = "validating"
    /\ valPos < validation_iterator
    /\ IF ok
       THEN /\ log' = Append(log, Event("validation_step", valPos + 1))
            /\ valPos' = valPos + 1
            /\ summary' = [summary EXCEPT !.validation = @ + 1]
            /\ UNCHANGED <<pc, mode, exc, timer>>
       ELSE /\ log' = Append(log, Event("validation_step_failed", valPos + 1))
            /\ mode' = "train"
            /\ timings' = TimerScope(timings, "validation_time", TRUE)
            /\ start_non_validation_time' = TRUE
            /\ Raise("Exception")
            /\ UNCHANGED <<valPos, summary>>
    /\ UNCHANGED <<iteration, epoch, config, device, invoked, resumption,
                   optimizer, step_calls, backpropagated, hooks, hidx, last,
                   dataPos, example, params, files>>

\* The validation sequence is exhausted: the generator's finally clause
\* restores the training mode; the hook dumps the aggregate and clears it.
\* The loop over the validation sequence left one example early.
ValidationEndEarly ==
    /\ pc = "validating"
    /\ valPos >= validation_iterator - 1
    /\ mode' = "train"
    /\ timings' = TimerScope(timings, "validation_time", FALSE)
    /\ start_non_validation_time' = TRUE
    /\ summary' = [summary EXCEPT !.validation = 0]
    /\ log' = Append(log, Event("dump", hooks[hidx].id))
    /\ AfterPre
    /\ UNCHANGED <<iteration, epoch, config, device, invoked, resumption,
                   optimizer, step_calls, backpropagated, hooks, last,
                   dataPos, example, valPos, params, files, exc>>

ValidationEnd ==
    /\ pc = "validating"
    /\ valPos = validation_iterator
    /\ mode' = "train"
    /\ timings' = TimerScope(timings, "validation_time", FALSE)
    /\ start_non_validation_time' = TRUE
    /\ summary' = [summary EXCEPT !.validation = 0]
    /\ log' = Append(log, Event("dump", hooks[hidx].id))
    /\ AfterPre
    /\ UNCHANGED <<iteration, epoch, config, device, invoked, resumption,
                   optimizer, step_calls, backpropagated, hooks, last,
                   dataPos, example, valPos, params, files, exc>>

----------------------------------------------------------------------------
(* Lines 175-178: the checkpoint trigger, or iteration == 1.               *)

CheckpointStepWithoutFirst ==
    LET fires == TriggerFires(checkpoint_step, last["checkpoint"], iteration, epoch)
    IN  /\ pc = "checkpoint"
        /\ last' = Poll("checkpoint", checkpoint_step)
        /\ IF fires
           THEN /\ files' = save_checkpoint
                /\ device' = Restored
                /\ log' = log \o <<Event("checkpoint_trigger", 1),
                                   Event("save_checkpoint", 0)>>
           ELSE /\ log' = Append(log, Event("checkpoint_trigger", 0))
                /\ UNCHANGED <<files, device>>
        /\ pc' = "fetch"
        /\ UNCHANGED <<iteration, epoch, config, invoked, resumption, timer,
                       optimizer, step_calls, backpropagated, hooks, hidx,
                       dataPos, example, valPos, mode, params, summary, exc>>

CheckpointStep ==
    LET fires == TriggerFires(checkpoint_step, last["checkpoint"], iteration, epoch)
    IN  /\ pc = "checkpoint"
        /\ last' = Poll("checkpoint", checkpoint_step)
        /\ IF fires \/ iteration = 1
           THEN /\ files' = save_checkpoint
                /\ device' = Restored
                /\ log' = log \o <<Event("checkpoint_trigger", IF fires THEN 1 ELSE 0),
                                   Event("save_checkpoint", 0)>>
           ELSE /\ log' = Append(log, Event("checkpoint_trigger", 0))
                /\ UNCHANGED <<files, device>>
        /\ pc' = "fetch"
        /\ UNCHANGED <<iteration, epoch, config, invoked, resumption, timer,
                       optimizer, step_calls, backpropagated, hooks, hidx,
                       dataPos, example, valPos, mode, params, summary, exc>>

----------------------------------------------------------------------------
(* Lines 179-187: next(data_iterator), inside the timer scopes            *)
(* time_per_step and time_per_data_loading.  break leaves the block of     *)
(* time_per_step without an exception.                                     *)

FetchExample ==
    /\ pc = "fetch"
    /\ dataPos < train_iterator
    /\ dataPos' = dataPos + 1
    /\ example' = dataPos + 1
    /\ log' = Append(log, Event("fetch", dataPos + 1))
    /\ timings' = TimerScope(timings, "time_per_data_loading", FALSE)
    /\ pc' = "train_step"
    /\ UNCHANGED <<iteration, epoch, config, device, invoked, resumption,
                   start_non_validation_time, optimizer, step_calls,
                   backpropagated, hooks, hidx, last, valPos, mode, params,
                   files, summary, exc>>

\* break without a new iter(train_iterator) in the next epoch.
EpochEndSameIterator ==
    /\ pc = "fetch"
    /\ dataPos = train_iterator
    /\ iteration > 0
    /\ epoch < MaxEpoch
    /\ epoch' = epoch + 1
    /\ log' = Append(log, Event("break", 0))
    /\ timings' = TimerScope(TimerScope(timings, "time_per_data_loading", TRUE),
                             "time_per_step", FALSE)
    /\ pc' = "pre"
    /\ hidx' = 1
    /\ UNCHANGED <<iteration, config, device, invoked, resumption,
                   start_non_validation_time, optimizer, step_calls,
                   backpropagated, hooks, last, dataPos, example, valPos,
                   mode, params, files, summary, exc>>

\* The inner loop written as itertools.count(): every epoch counts its
\* iterations from 0.
EpochEndResetIteration ==
    /\ pc = "fetch"
    /\ dataPos = train_iterator
    /\ iteration > 0
    /\ epoch < MaxEpoch
    /\ epoch' = epoch + 1
    /\ iteration' = 0
    /\ dataPos' = 0
    /\ log' = Append(log, Event("break", 0))
    /\ timings' = TimerScope(TimerScope(timings, "time_per_data_loading", TRUE),
                             "time_per_step", FALSE)
    /\ pc' = "pre"
    /\ hidx' = 1
    /\ UNCHANGED <<config, device, invoked, resumption,
                   start_non_validation_time, optimizer, step_calls,
                   backpropagated, hooks, last, example, valPos, mode, params,
                   files, summary, exc>>

\* The pass that finds the sequence exhausted counted as an iteration.
EpochEndAdvancesIteration ==
    /\ pc = "fetch"
    /\ dataPos = train_iterator
    /\ iteration > 0
    /\ epoch < MaxEpoch
    /\ epoch' = epoch + 1
    /\ iteration' = iteration + 1
    /\ dataPos' = 0
    /\ log' = Append(log, Event("break", 0))
    /\ timings' = TimerScope(TimerScope(timings, "time_per_data_loading", TRUE),
                             "time_per_step", FALSE)
    /\ pc' = "pre"
    /\ hidx' = 1
    /\ UNCHANGED <<config, device, invoked, resumption,
                   start_non_validation_time, optimizer, step_calls,
                   backpropagated, hooks, last, example, valPos, mode, params,
                   files, summary, exc>>

\* StopIteration with iteration > 0: break.  The outer for statement binds
\* the next epoch and opens a new data iterator; the inner one starts
\* counting at the iteration it was left with.
EpochEnd ==
    /\ pc = "fetch"
    /\ dataPos = train_iterator
    /\ iteration > 0
    /\ epoch < MaxEpoch
    /\ epoch' = epoch + 1
    /\ dataPos' = 0
    /\ log' = Append(log, Event("break", 0))
    /\ timings' = TimerScope(TimerScope(timings, "time_per_data_loading", TRUE),
                             "time_per_step", FALSE)
    /\ pc' = "pre"
    /\ hidx' = 1
    /\ UNCHANGED <<iteration, config, device, invoked, resumption,
                   start_non_validation_time, optimizer, step_calls,
                   backpropagated, hooks, last, example, valPos, mode, params,
                   files, summary, exc>>

\* StopIteration handled by break alone, without the iteration > 0 test.
ZeroLengthBreak ==
    /\ pc = "fetch"
    /\ dataPos = train_iterator
    /\ iteration = 0
    /\ epoch < MaxEpoch
    /\ epoch' = epoch + 1
    /\ log' = Append(log, Event("zero_length", 0))
    /\ timings' = TimerScope(TimerScope(timings, "time_per_data_loading", TRUE),
                             "time_per_step", FALSE)
    /\ pc' = "pre"
    /\ hidx' = 1
    /\ UNCHANGED <<iteration, config, device, invoked, resumption,
                   start_non_validation_time, optimizer, step_calls,
                   backpropagated, hooks, last, dataPos, example, valPos,
                   mode, params, files, summary, exc>>

\* StopIteration with iteration == 0: 'Zero length train iterator'.
ZeroLength ==
    /\ pc = "fetch"
    /\ dataPos = train_iterator
    /\ iteration = 0
    /\ log' = Append(log, Event("zero_length", 0))
    /\ timings' = TimerScope(TimerScope(timings, "time_per_data_loading", TRUE),
                             "time_per_step", TRUE)
    /\ Raise("Exception")
    /\ UNCHANGED <<iteration, epoch, config, device, invoked, resumption,
                   start_non_validation_time, optimizer, step_calls,
                   backpropagated, hooks, hidx, last, dataPos, example,
                   valPos, mode, params, files, summary>>

----------------------------------------------------------------------------
(* Lines 188-193: batch_to_device and Trainer.train_step (206-218).  The   *)
(* forward pass, the review and clip_grad are calls into the model and the *)
(* optimizer and may raise; backward fails as computed from the review.    *)
(* Whatever raises ends the step there: optimizer.step is not reached.     *)
(* nested_update (line 217) runs on the review after optimizer.step: when  *)
(* it raises, the step has been applied and train_step does not return.    *)
(* A mocked optimizer.step is called and changes nothing.                  *)

\* The calls of a step whose optimizer.step comes before backward.
StepCallsStepFirst ==
    <<"batch_to_device", "zero_grad", "forward", "review", "optimizer_step",
      "backward", "clip_grad", "nested_update">>

\* The calls of a step that nothing interrupts, in the order of the code.
StepCalls ==
    <<"batch_to_device", "zero_grad", "forward", "review", "backward",
      "clip_grad", "optimizer_step", "nested_update">>

\* The calls that can raise on behalf of the model or the optimizer.
StepFailures == {"none", "forward", "review", "clip_grad", "nested_update"}

\* The calls made up to the one that raises.
CallsUntil(call) ==
    SubSeq(StepCalls, 1, CHOOSE k \in 1 .. Len(StepCalls) : StepCalls[k] = call)

\* The call at which the step ends: the first that raises.
FailedAt(failure) ==
    IF failure \in {"forward", "review"} THEN failure
    ELSE IF backward.error # "none" THEN "backward"
    ELSE failure

\* The parameters updated by the step although optimizer.step is a mock.
TrainStepMockIgnored(failure) ==
    LET b == backward
        at == FailedAt(failure)
    IN  /\ pc = "train_step"
        /\ IF at = "none"
           THEN /\ params' = Append(params, example)
                /\ optimizer' = IF optimizer_mocked THEN optimizer
                                 ELSE optimizer + 1
                /\ step_calls' = StepCalls
                /\ backpropagated' = <<b.loss>>
                /\ log' = log \o <<Event("zero_grad", example),
                                   Event("optimizer_step", example)>>
                /\ timings' = TimerScope(timings, "time_per_train_step", FALSE)
                /\ pc' = "post"
                /\ hidx' = 1
                /\ UNCHANGED exc
           ELSE /\ step_calls' = CallsUntil(at)
                /\ backpropagated' =
                    IF at \in {"clip_grad", "nested_update"} THEN <<b.loss>>
                    ELSE <<>>
                /\ IF at = "nested_update"
                   THEN /\ params' = Append(params, example)
                        /\ optimizer' = IF optimizer_mocked THEN optimizer
                                         ELSE optimizer + 1
                        /\ log' = log \o <<Event("zero_grad", example),
                                           Event("optimizer_step", example),
                                           Event("train_step_failed", example)>>
                   ELSE /\ log' = log \o <<Event("zero_grad", example),
                                           Event("train_step_failed", example)>>
                        /\ UNCHANGED <<params, optimizer>>
                /\ timings' = TimerScope(TimerScope(timings, "time_per_train_step",
                                                   TRUE),
                                        "time_per_step", TRUE)
                /\ Raise(IF at = "backward" THEN b.error ELSE "Exception")
                /\ UNCHANGED hidx
        /\ UNCHANGED <<iteration, epoch, config, device, invoked, resumption,
                       start_non_validation_time, hooks, last, dataPos,
                       example, valPos, mode, files, summary>>

TrainStep(failure) ==
    LET b == backward
        at == FailedAt(failure)
    IN  /\ pc = "train_step"
        /\ IF at = "none"
           THEN /\ params' = IF optimizer_mocked THEN params
                              ELSE Append(params, example)
                /\ optimizer' = IF optimizer_mocked THEN optimizer
                                 ELSE optimizer + 1
                /\ step_calls' = StepCalls
                /\ backpropagated' = <<b.loss>>
                /\ log' = log \o <<Event("zero_grad", example),
                                   Event("optimizer_step", example)>>
                /\ timings' = TimerScope(timings, "time_per_train_step", FALSE)
                /\ pc' = "post"
                /\ hidx' = 1
                /\ UNCHANGED exc
           ELSE /\ step_calls' = CallsUntil(at)
                /\ backpropagated' =
                    IF at \in {"clip_grad", "nested_update"} THEN <<b.loss>>
                    ELSE <<>>
                /\ IF at = "nested_update"
                   THEN /\ params' = IF optimizer_mocked THEN params
                                      ELSE Append(params, example)
                        /\ optimizer' = IF optimizer_mocked THEN optimizer
                                         ELSE optimizer + 1
                        /\ log' = log \o <<Event("zero_grad", example),
                                           Event("optimizer_step", example),
                                           Event("train_step_failed", example)>>
                   ELSE /\ log' = log \o <<Event("zero_grad", example),
                                           Event("train_step_failed", example)>>
                        /\ UNCHANGED <<params, optimizer>>
                /\ timings' = TimerScope(TimerScope(timings, "time_per_train_step",
                                                   TRUE),
                                        "time_per_step", TRUE)
                /\ Raise(IF at = "backward" THEN b.error ELSE "Exception")
                /\ UNCHANGED hidx
        /\ UNCHANGED <<iteration, epoch, config, device, invoked, resumption,
                       start_non_validation_time, hooks, last, dataPos,
                       example, valPos, mode, files, summary>>

----------------------------------------------------------------------------
(* hook.post_function(...), lines 195-198.  After the last hook the inner  *)
(* for statement binds the next iteration.                                 *)

\* The dispatch loop left after the first hook.
PostFunctionFirstOnly ==
    /\ pc = "post"
    /\ log' = Append(log, Event("post", hooks[hidx].id))
    /\ summary' = IF hooks[hidx].kind = "summary"
                  THEN [summary EXCEPT !.training = @ + 1]
                  ELSE summary
    /\ hidx' = 1
    /\ pc' = "pre"
    /\ iteration' = iteration + 1
    /\ timings' = TimerScope(timings, "time_per_step", FALSE)
    /\ UNCHANGED <<epoch, config, device, invoked, resumption,
                   start_non_validation_time, optimizer, step_calls,
                   backpropagated, hooks, last, dataPos, example, valPos,
                   mode, params, files, exc>>

\* The inner for statement written as a while loop that forgets to count:
\* the next pass runs with the same iteration.
PostFunctionKeepsIteration ==
    /\ pc = "post"
    /\ log' = Append(log, Event("post", hooks[hidx].id))
    /\ summary' = IF hooks[hidx].kind = "summary"
                  THEN [summary EXCEPT !.training = @ + 1]
                  ELSE summary
    /\ IF hidx < Len(hooks)
       THEN /\ hidx' = hidx + 1
            /\ UNCHANGED <<pc, timings>>
       ELSE /\ hidx' = 1
            /\ pc' = "pre"
            /\ timings' = TimerScope(timings, "time_per_step", FALSE)
    /\ UNCHANGED <<iteration, epoch, config, device, invoked, resumption,
                   start_non_validation_time, optimizer, step_calls,
                   backpropagated, hooks, last, dataPos, example, valPos,
                   mode, params, files, exc>>

PostFunction ==
    /\ pc = "post"
    /\ log' = Append(log, Event("post", hooks[hidx].id))
    /\ summary' = IF hooks[hidx].kind = "summary"
                  THEN [summary EXCEPT !.training = @ + 1]
                  ELSE summary
    /\ IF hidx < Len(hooks)
       THEN /\ hidx' = hidx + 1
            /\ UNCHANGED <<pc, iteration, timings>>
       ELSE /\ hidx' = 1
            /\ pc' = "pre"
            /\ iteration' = iteration + 1
            /\ timings' = TimerScope(timings, "time_per_step", FALSE)
    /\ UNCHANGED <<epoch, config, device, invoked, resumption,
                   start_non_validation_time, optimizer, step_calls,
                   backpropagated, hooks, last, dataPos, example, valPos,
                   mode, params, files, exc>>

----------------------------------------------------------------------------
(* Lines 200-204: except StopTraining: pass; finally: dump, save.          *)

\* The finally clause without summary_hook.dump_summary(self).
FinallyDumpSkipped ==
    /\ pc = "finally_dump"
    /\ pc' = "finally_save"
    /\ UNCHANGED <<iteration, epoch, config, device, invoked, resumption,
                   timer, optimizer, step_calls, backpropagated, hooks, hidx,
                   last, dataPos, example, valPos, mode, params, files,
                   summary, exc, log>>

\* The cleanup written as part of the except StopTraining clause.
FinallyDumpOnlyOnStop ==
    /\ pc = "finally_dump"
    /\ IF exc = "StopTraining"
       THEN /\ summary' = [summary EXCEPT !.training = 0]
            /\ log' = Append(log, Event("dump_summary", 0))
            /\ pc' = "finally_save"
       ELSE /\ pc' = "raised"
            /\ UNCHANGED <<summary, log>>
    /\ UNCHANGED <<iteration, epoch, config, device, invoked, resumption,
                   timer, optimizer, step_calls, backpropagated, hooks, hidx,
                   last, dataPos, example, valPos, mode, params, files, exc>>

FinallyDump ==
    /\ pc = "finally_dump"
    /\ summary' = [summary EXCEPT !.training = 0]
    /\ log' = Append(log, Event("dump_summary", 0))
    /\ pc' = "finally_save"
    /\ UNCHANGED <<iteration, epoch, config, device, invoked, resumption,
                   timer, optimizer, step_calls, backpropagated, hooks, hidx,
                   last, dataPos, example, valPos, mode, params, files, exc>>

\* train() without the final save_checkpoint call.
FinallySaveSkipped ==
    /\ pc = "finally_save"
    /\ pc' = IF exc = "StopTraining" THEN "returned" ELSE "raised"
    /\ UNCHANGED <<iteration, epoch, config, device, invoked, resumption,
                   timer, optimizer, step_calls, backpropagated, hooks, hidx,
                   last, dataPos, example, valPos, mode, params, files,
                   summary, exc, log>>

FinallySave ==
    /\ pc = "finally_save"
    /\ files' = save_checkpoint
    /\ device' = Restored
    /\ log' = Append(log, Event("save_checkpoint", 0))
    /\ pc' = IF exc = "StopTraining" THEN "returned" ELSE "raised"
    /\ UNCHANGED <<iteration, epoch, config, invoked, resumption, timer,
                   optimizer, step_calls, backpropagated, hooks, hidx, last,
                   dataPos, example, valPos, mode, params, summary, exc>>

----------------------------------------------------------------------------
(* trainer.load_checkpoint(checkpoint_path), called by the trainer's user  *)
(* after train() has ended, before train() is called again.  The path is   *)
(* ckpt_<path>; a path outside the directory is a missing file, and the   *)
(* call fails before it has assigned anything.  After a load, the locals   *)
(* and hooks of the train() call that ended are gone.                      *)

\* The trainer a load_checkpoint(ckpt_<path>) call finds, and the error
\* the call raises.
Found(path, error) ==
    [resumed |-> error = "none", error |-> error, loaded |-> path,
     params |-> params, optimizer |-> optimizer, iteration |-> iteration,
     epoch |-> epoch]

LoadCheckpoint(path) ==
    /\ pc \in {"returned", "raised"}
    /\ restarts > 0
    /\ restarts' = restarts - 1
    /\ IF path \in DOMAIN files
       THEN LET loaded == load_checkpoint(files[path])
            IN  /\ params' = loaded.params
                /\ optimizer' = loaded.optimizer
                /\ iteration' = loaded.iteration
                /\ epoch' = loaded.epoch
                /\ start' = SetLast(loaded.iteration, loaded.epoch)
                /\ previous' = Found(path, "none")
                /\ pc' = "constructed"
                /\ exc' = "none"
                /\ log' = <<>>
                /\ hooks' = <<>>
                /\ hidx' = 1
                /\ dataPos' = 0
                /\ example' = 0
                /\ valPos' = 0
                /\ step_calls' = <<>>
                /\ backpropagated' = <<>>
                /\ summary' = [training |-> 0, validation |-> 0]
       ELSE /\ \E error \in MissingFileErrors : previous' = Found(path, error)
            /\ UNCHANGED <<pc, iteration, epoch, start, hooks, hidx, dataPos,
                           example, valPos, params, optimizer, step_calls,
                           backpropagated, summary, exc, log>>
    /\ UNCHANGED <<train_iterator, validation_iterator, checkpoint_step,
                   validate_step, summary_step, max_step, user_hooks, losses,
                   loss_weights, optimizer_mocked, use_cuda, gpu_device,
                   device, timer, last, mode, files, invoked>>

----------------------------------------------------------------------------

Next ==
    \/ TrainStart
    \/ PreUser
    \/ PreSummary
    \/ PreValidation
    \/ PreStop
    \/ \E ok \in BOOLEAN : ValidationStep(ok)
    \/ ValidationEnd
    \/ CheckpointStep
    \/ FetchExample
    \/ EpochEnd
    \/ ZeroLength
    \/ \E failure \in StepFailures : TrainStep(failure)
    \/ PostFunction
    \/ FinallyDump
    \/ FinallySave
    \/ \E path \in 0 .. iteration + 1 : LoadCheckpoint(path)

Spec == Init /\ [][Next]_vars

\* train() is sequential code run by one thread: a statement that can run
\* does run.
FairSpec == Spec /\ WF_vars(Next)

----------------------------------------------------------------------------
(* modules/conv1d.py: the time length of Pad, Cut and Conv1d.  A tensor is *)
(* represented by the length of its last (time) axis.                      *)

Sides == {"front", "both", "end"}

\* math.ceil(n / 2) for an integer n of either sign.
CeilHalf(n) == -((-n) \div 2)

\* Pad.forward, lines 28-42, for a stride that is not None: the pair
\* (front, end) handed to F.pad; (0, 0) when nothing is padded.
Pad(kernel_size, stride, side, length) ==
    LET k == kernel_size - 1
        tail == (length - 1) % stride
    IN  IF k > 0
        THEN CASE side = "front" -> <<k - tail, 0>>
               [] side = "both" -> <<(k - tail) \div 2, CeilHalf(k - tail)>>
               [] side = "end" -> <<0, k - tail>>
        ELSE <<0, 0>>

\* F.pad(x, pad): a negative amount removes frames.
Padded(length, pad) == length + pad[1] + pad[2]

\* The length of x[..., from : to] for from >= 0 and an end index to.
Slice(length, from, to) ==
    LET first == IF from < length THEN from ELSE length
        stop == IF to < 0 THEN 0 ELSE IF to < length THEN to ELSE length
    IN  IF stop > first THEN stop - first ELSE 0

\* Cut.forward, lines 51-63, for a side that is not None.
Cut(side, length, size) ==
    IF size > 0
    THEN CASE side = "front" -> Slice(length, size, length)
           [] side = "both" ->
                Slice(length, size \div 2, length - CeilHalf(size))
           [] side = "end" -> Slice(length, 0, length - size)
    ELSE length

\* 1 + self.dilation * (self.kernel_size - 1), lines 189 and 204.
DilatedKernel(kernel_size, dilation) == 1 + dilation * (kernel_size - 1)

\* nn.Conv1d without padding: -1 stands for the RuntimeError of an input
\* shorter than the dilated kernel.
conv(length, kernel_size, dilation, stride) ==
    LET k == DilatedKernel(kernel_size, dilation)
    IN  IF length < k THEN -1 ELSE ((length - k) \div stride) + 1

\* nn.ConvTranspose1d without padding and output_padding.
conv_transpose(length, kernel_size, dilation, stride) ==
    (length - 1) * stride + DilatedKernel(kernel_size, dilation)

\* Conv1d.forward, lines 187-207, without condition h: the padding made
\* and the time length of the output.
Conv1d(length, kernel_size, dilation, stride, transpose, padding) ==
    IF ~transpose
    THEN LET pad == Pad(DilatedKernel(kernel_size, dilation), stride, padding,
                        length)
         IN  [pad |-> pad,
              length |-> conv(Padded(length, pad), kernel_size, dilation, stride)]
    ELSE LET y == conv_transpose(length, kernel_size, dilation, stride)
         IN  [pad |-> <<0, 0>>,
              length |-> Cut(padding, y,
                             DilatedKernel(kernel_size, dilation) - stride)]

----------------------------------------------------------------------------
(* The functions and modules a user calls outside train(), one call each   *)
(* next to a trainer as constructed.                                       *)

\* The trainer the calls are made on: the defaults of Trainer.__init__.
DefaultTrainer ==
    /\ start = SetLast(0, 0)
    /\ train_iterator = 1
    /\ validation_iterator = 1
    /\ checkpoint_step = DefaultStep
    /\ validate_step = DefaultStep
    /\ summary_step = DefaultStep
    /\ max_step = DefaultStep
    /\ user_hooks = <<>>
    /\ losses = OneLoss
    /\ loss_weights = NoWeights
    /\ ~optimizer_mocked
    /\ ~use_cuda
    /\ restarts = 0

CallInit == Init /\ DefaultTrainer

ClipGrad(prefix, grad_norm) ==
    /\ pc = "constructed"
    /\ invoked = NoCall
    /\ \E outcome \in clip_grad(prefix, grad_norm) :
        invoked' = [op |-> "clip_grad", prefix |-> prefix,
                    grad_norm |-> grad_norm, outcome |-> outcome]
    /\ UNCHANGED <<pc, iteration, epoch, config, device, resumption, timer,
                   hooks, hidx, last, dataPos, example, valPos, mode, params,
                   optimizer, step_calls, backpropagated, files, summary, exc,
                   log>>

\* Conv1d(...)(x) for an input of the given time length.
Conv1dForward(length, kernel_size, dilation, stride, transpose, padding) ==
    /\ pc = "constructed"
    /\ invoked = NoCall
    /\ invoked' = [op |-> "Conv1d", length |-> length,
                   kernel_size |-> kernel_size, dilation |-> dilation,
                   stride |-> stride, transpose |-> transpose,
                   padding |-> padding,
                   outcome |-> Conv1d(length, kernel_size, dilation, stride,
                                      transpose, padding)]
    /\ UNCHANGED <<pc, iteration, epoch, config, device, resumption, timer,
                   hooks, hidx, last, dataPos, example, valPos, mode, params,
                   optimizer, step_calls, backpropagated, files, summary, exc,
                   log>>

CallNext ==
    \/ \E prefix \in Prefixes, grad_norm \in GradNorms :
        ClipGrad(prefix, grad_norm)
    \/ \E length \in 1 .. MaxLength, kernel_size \in 1 .. MaxKernel,
          dilation \in 1 .. MaxDilation, stride \in 1 .. MaxStride,
          transpose \in BOOLEAN, padding \in Sides :
        Conv1dForward(length, kernel_size, dilation, stride, transpose,
                      padding)

CallSpec == CallInit /\ [][CallNext]_vars

----------------------------------------------------------------------------
(* Properties.                                                             *)

Events(op) == {i \in 1 .. Len(log) : log[i].op = op}

Happened(op) == Events(op) # {}

\* The last three calls are exactly a, b, c.
EndsWith(a, b, c) ==
    LET n == Len(log)
    IN  /\ n >= 3
        /\ log[n - 2].op = a
        /\ log[n - 1].op = b
        /\ log[n].op = c

\* ckpt_<iteration> holds the trainer's present state.
FinalCheckpointWritten ==
    /\ iteration \in DOMAIN files
    /\ files[iteration] = Checkpoint

\* C1: when StopTraining was raised, train() does not propagate it, and it
\* returns only after dump_summary and then save_checkpoint of the current
\* iteration have run, in that order.
C1_StopRunsCleanup ==
    Happened("StopTraining") =>
        /\ pc \in {"finally_dump", "finally_save", "returned"}
        /\ pc = "returned" =>
            /\ EndsWith("StopTraining", "dump_summary", "save_checkpoint")
            /\ log[Len(log)].it = iteration
            /\ FinalCheckpointWritten

C1_Witness == pc = "returned" /\ Happened("StopTraining") /\ Len(params) > 0

----------------------------------------------------------------------------
(* Hook dispatch.                                                          *)

\* The hooks in insertion order: the user hooks as passed, then
\* SummaryHook, ValidationHook, StopTrainingHook.  A hook's id is its
\* insertion position.
Inserted ==
    LET n == Len(user_hooks)
    IN  user_hooks \o <<SummaryHook(n + 1), ValidationHook(n + 2),
                        StopTrainingHook(n + 3)>>

\* The number of hooks that a dispatch in non-increasing priority order,
\* insertion order among equal priorities, calls before each hook.
CalledBefore ==
    LET ins == Inserted
    IN  [h \in 1 .. Len(ins) |->
            Cardinality({g \in 1 .. Len(ins) :
                \/ ins[g].priority > ins[h].priority
                \/ ins[g].priority = ins[h].priority /\ g < h})]

\* The hooks called by the op calls ("pre" or "post"), in call order.
Dispatched(op) ==
    LET calls == SelectSeq(log, LAMBDA e : e.op = op)
    IN  [k \in 1 .. Len(calls) |-> calls[k].hook]

\* C3: in every loop pass the pre_function calls and the post_function
\* calls both go through the hooks in non-increasing priority order, hooks
\* of equal priority in insertion order.
C3_DispatchOrder ==
    \A op \in {"pre", "post"} :
        LET called == Dispatched(op)
            before == CalledBefore
            n == Len(user_hooks) + 3
        IN  \A k \in 1 .. Len(called) : before[called[k]] = (k - 1) % n

C3_Witness ==
    /\ Len(user_hooks) = 2
    /\ user_hooks[1].priority = PrioritySummary
    /\ user_hooks[2].priority = PrioritySummary
    /\ Len(Dispatched("post")) >= 2 * Len(Inserted)

Calls(op, h) == Cardinality({i \in Events(op) : log[i].hook = h})

NSteps == Cardinality(Events("optimizer_step"))

NBreaks == Cardinality(Events("break"))

SamePass(i, j) == log[i].it = log[j].it /\ log[i].ep = log[j].ep

\* The calls added by the step that led to this state.
Newest == {i \in 1 .. Len(log) : i >= Len(log) - 1}

\* All pre_function calls of a loop pass precede its zero_grad, and all
\* its post_function calls follow its optimizer.step.  (Stated of the
\* newest calls: every call was the newest in some earlier state.)
DispatchAroundStep ==
    \A i \in Newest :
        /\ log[i].op = "zero_grad" =>
            \A h \in 1 .. Len(hooks) :
                \E j \in Events("pre") :
                    j < i /\ log[j].hook = h /\ SamePass(i, j)
        /\ log[i].op = "post" =>
            \E j \in Events("optimizer_step") : j < i /\ SamePass(i, j)
        /\ log[i].op = "pre" =>
            \A j \in Events("zero_grad") : j < i /\ ~SamePass(i, j)

\* The training steps that train_step returned from: nothing raised after
\* their optimizer.step.
CompletedSteps ==
    Cardinality({i \in Events("optimizer_step") :
                    i = Len(log) \/ log[i + 1].op # "train_step_failed"})

\* post_function of every hook is called exactly once per executed
\* training step.
PostOncePerStep ==
    LET steps == CompletedSteps
        post == Events("post")
    IN  \A h \in 1 .. Len(hooks) :
            LET posts == Cardinality({i \in post : log[i].hook = h})
            IN  /\ posts \in {steps - 1, steps}
                /\ pc # "post" => posts = steps

\* Every pre_function call is followed by a training step of its loop pass
\* (stated of non-empty training sequences and of the loop passes that are
\* over: the counters have moved on).
PreOnlyWithStep ==
    \A i \in Events("pre") :
        (train_iterator > 0 /\ (log[i].it # iteration \/ log[i].ep # epoch)) =>
            \E j \in Events("optimizer_step") : i < j /\ SamePass(i, j)

\* pre_function of every hook is called exactly once per loop pass, with
\* or without a training step in the pass.
PreOncePerPass ==
    LET passes == NSteps + NBreaks
        pre == Events("pre")
    IN  \A h \in 1 .. Len(hooks) :
            LET pres == Cardinality({i \in pre : log[i].hook = h})
            IN  /\ pres \in {passes, passes + 1}
                /\ pc \in {"checkpoint", "fetch", "train_step"} =>
                    pres = passes + 1
                /\ pc = "post" => pres = passes

\* C4 as written: pre_function and post_function of every hook are called
\* exactly once per executed training step, the pre_function calls before
\* its zero_grad and the post_function calls after its optimizer.step, and
\* no pre_function call is without a following step.
C4_OncePerStep == DispatchAroundStep /\ PostOncePerStep /\ PreOnlyWithStep

\* C4, amended: post_function of every hook is called exactly once per
\* training step that train_step returned from, after its optimizer.step;
\* pre_function of every hook is called once per loop pass, before the
\* zero_grad of the pass,
\* also in the loop passes that execute no step: the pass that finds the
\* training sequence exhausted (break) and the pass that ends train().
C4_OncePerPass == DispatchAroundStep /\ PostOncePerStep /\ PreOncePerPass

C4_Witness ==
    /\ pc = "post"
    /\ NBreaks > 0
    /\ \A h \in 1 .. Len(hooks) : Calls("pre", h) > NSteps

\* The checkpoint trigger fired in the running loop pass.
CheckpointFired ==
    \E i \in Events("checkpoint_trigger") :
        log[i].hook = 1 /\ log[i].it = iteration /\ log[i].ep = epoch

\* The running loop pass is past line 178 and has not left the step.
PastCheckpoint ==
    \/ pc \in {"fetch", "train_step", "post"}
    \/ /\ pc = "finally_dump"
       /\ log[Len(log)].op \in {"train_step_failed", "zero_length"}

\* The step of the running loop pass has changed the parameters.
StepApplied ==
    \/ pc = "post"
    \/ /\ Len(log) > 1
       /\ log[Len(log)].op = "train_step_failed"
       /\ log[Len(log) - 1].op = "optimizer_step"

----------------------------------------------------------------------------
(* Schedules of a fresh run.                                               *)

Fresh == start = SetLast(0, 0)

\* Iteration i is one at which the counter of the step's unit reaches a
\* multiple of its period in a fresh run (epoch e begins at iteration
\* e * len(train_iterator)).
Boundary(step, i) ==
    IF step.unit = "iteration"
    THEN i > 0 /\ i % step.period = 0
    ELSE /\ train_iterator > 0
         /\ i > 0
         /\ i % train_iterator = 0
         /\ (i \div train_iterator) % step.period = 0

\* C6: after a fresh run that ends by the stop condition, the numbered
\* artifacts are exactly those of the iterations at which a checkpoint
\* period boundary was reached (stated of the runs whose final iteration is
\* such a boundary, as in both scenarios of the claim).
C6_ExactlyBoundaryCheckpoints ==
    (pc = "returned" /\ Fresh /\ Boundary(checkpoint_step, iteration)) =>
        DOMAIN files = {i \in 0 .. iteration : Boundary(checkpoint_step, i)}

\* C7: a fresh run that returns has performed exactly N optimizer steps
\* and stands at iteration N for max_step = (N, 'iteration'), and exactly
\* E * len(train_iterator) steps for max_step = (E, 'epoch').
C7_HaltsAtMaxStep ==
    (pc = "returned" /\ Fresh) =>
        /\ Len(params) = IF optimizer_mocked THEN 0 ELSE NSteps
        /\ iteration = NSteps
        /\ IF max_step.unit = "iteration"
           THEN NSteps = max_step.period
           ELSE NSteps = max_step.period * train_iterator /\ epoch = max_step.period

C7_Witness ==
    /\ pc = "returned"
    /\ Fresh
    /\ max_step = [period |-> 2, unit |-> "epoch"]
    /\ train_iterator = 2
    /\ NSteps = 4

\* The id of the ValidationHook.
ValidationId == Len(user_hooks) + 2

\* The validation pass started by call v ran over the whole validation
\* sequence and ended before call s.
CompletedBefore(v, s) ==
    /\ v + validation_iterator + 1 < s
    /\ \A k \in 1 .. validation_iterator :
        log[v + k].op = "validation_step" /\ log[v + k].hook = k
    /\ log[v + validation_iterator + 1].op = "dump"
    /\ log[v + validation_iterator + 1].hook = ValidationId

\* C8: in a fresh run a validation pass has been started exactly once per
\* validation period boundary reached, and a validation pass started in
\* the loop pass in which StopTraining is raised is complete before the
\* raise.
C8_ValidationPerBoundary ==
    Fresh =>
        /\ (pc \in {"checkpoint", "fetch", "train_step", "post"}
                \/ exc = "StopTraining") =>
            Cardinality(Events("validate")) =
                Counter(validate_step.unit, iteration, epoch)
                    \div validate_step.period
        /\ \A s \in Events("StopTraining") :
            \A v \in Events("validate") :
                SamePass(v, s) => CompletedBefore(v, s)

C8_Witness ==
    /\ pc = "returned"
    /\ Fresh
    /\ validate_step = [period |-> 2, unit |-> "iteration"]
    /\ max_step = [period |-> 4, unit |-> "iteration"]
    /\ Cardinality(Events("validate")) = 2
    /\ \E v \in Events("validate") : log[v].it = 4

\* C9: a validation pass is a run of validation steps over the examples
\* 1, 2, ... of the validation sequence, in order, that nothing but the
\* end of the pass or a failed validation step interrupts: no training
\* step falls between two validation steps of a pass.  With an epoch
\* period, the training steps before a validation pass belong to earlier
\* epochs and those after it to the epoch it opens or to later ones.
C9_ValidationNotInterleaved ==
    /\ \A k \in 1 .. Len(log) - 1 :
        /\ log[k].op = "validate" =>
            \/ log[k + 1].op = "validation_step" /\ log[k + 1].hook = 1
            \/ log[k + 1].op = "validation_step_failed"
            \/ log[k + 1].op = "dump" /\ validation_iterator = 0
        /\ log[k].op = "validation_step" =>
            \/ /\ log[k + 1].op = "validation_step"
               /\ log[k + 1].hook = log[k].hook + 1
            \/ log[k + 1].op = "validation_step_failed"
            \/ /\ log[k + 1].op = "dump"
               /\ log[k + 1].hook = ValidationId
               /\ log[k].hook = validation_iterator
        /\ log[k + 1].op \in {"validation_step", "validation_step_failed"} =>
            log[k].op \in {"validate", "validation_step"}
    /\ validate_step.unit = "epoch" =>
        \A v \in Events("validate") :
            \A s \in Events("optimizer_step") :
                IF s < v THEN log[s].ep < log[v].ep ELSE log[s].ep >= log[v].ep

C9_Witness ==
    /\ validate_step = [period |-> 1, unit |-> "epoch"]
    /\ validation_iterator = 2
    /\ train_iterator = 2
    /\ pc = "returned"
    /\ Cardinality(Events("validation_step")) = 4
    /\ NSteps = 4

\* A step taken by train(): the call has not ended.
InTrain == pc \notin {"returned", "raised"}

\* C10: iteration and epoch never decrease during train(), whatever the
\* counters it starts with.
C10_CountersNeverDecrease ==
    [][InTrain => iteration' >= iteration /\ epoch' >= epoch]_vars

\* A training step in a resumed run after an epoch boundary, at the
\* iteration the boundary was reached with.
C10_Witness ==
    /\ ~Fresh
    /\ \E b \in Events("break") :
        \E s \in Events("optimizer_step") : b < s /\ log[s].it = log[b].it

----------------------------------------------------------------------------
(* The zero-length training sequence.                                      *)

\* C11: when the training sequence is exhausted at iteration 0, train()
\* fails with an exception instead of continuing: the exception is in
\* flight through the finally clause and leaves train(), and no
\* optimizer step and no post_function call has been made.
C11_ZeroLengthIsFatal ==
    Happened("zero_length") =>
        /\ exc = "Exception"
        /\ pc \in {"finally_dump", "finally_save", "raised"}
        /\ iteration = 0
        /\ ~Happened("optimizer_step")
        /\ ~Happened("post")
        /\ ~Happened("zero_grad")
        /\ params = <<>>

C11_Witness ==
    /\ pc = "raised"
    /\ Happened("zero_length")
    /\ train_iterator = 0
    /\ Fresh

----------------------------------------------------------------------------
(* Losses and loss_weights.                                                *)

\* The review has more than one loss and no loss_weights is configured.
MultipleLosses == loss_weights.none /\ Cardinality(DOMAIN losses) > 1

\* The latest train_step ended in the call op.
StepEndedIn(op) == step_calls # <<>> /\ step_calls[Len(step_calls)] = op

\* C12: with more than one loss and no loss_weights, every training step
\* fails: a step that reaches backward raises the exception of backward,
\* optimizer.step is never called, and the parameters and the optimizer
\* state stay as constructed.
C12_MultipleLossesFail ==
    MultipleLosses =>
        /\ ~Happened("optimizer_step")
        /\ \A k \in 1 .. Len(step_calls) : step_calls[k] # "optimizer_step"
        /\ pc # "post"
        /\ params = <<>>
        /\ optimizer = 0
        /\ Happened("zero_grad") =>
            /\ Happened("train_step_failed")
            /\ pc \in {"finally_dump", "finally_save", "raised"}
            /\ \/ StepEndedIn("backward")
               \/ StepEndedIn("forward")
               \/ StepEndedIn("review")
            /\ StepEndedIn("backward") => exc = "Exception"

C12_Witness ==
    /\ MultipleLosses
    /\ pc = "raised"
    /\ StepEndedIn("backward")
    /\ exc = "Exception"

----------------------------------------------------------------------------
(* load_checkpoint and resumed runs.                                       *)

\* The calls of a training step: its first call, and its last one.
StepEvents ==
    Events("zero_grad") \cup Events("optimizer_step")
        \cup Events("train_step_failed")

\* C13: after load_checkpoint of the record with counters (k, e) the
\* trainer has iteration = k + 1 and epoch = e, train() starts from these
\* counters, and no training step of it has an iteration index <= k.
C13_ResumesAfterLoadedIteration ==
    previous.resumed =>
        LET k == previous.loaded
        IN  /\ files[k].iteration = k
            /\ start = SetLast(k + 1, files[k].epoch)
            /\ pc = "constructed" =>
                iteration = k + 1 /\ epoch = files[k].epoch
            /\ iteration > k
            /\ \A s \in StepEvents : log[s].it > k

C13_Witness ==
    /\ previous.resumed
    /\ previous.loaded = 1
    /\ files[1].epoch = 0
    /\ pc = "returned"
    /\ \E s \in Events("optimizer_step") : log[s].it = 2

\* A failed load_checkpoint has left the model, the optimizer and the
\* counters as it found them.
FailedLoadChangedNothing ==
    /\ params = previous.params
    /\ optimizer = previous.optimizer
    /\ iteration = previous.iteration
    /\ epoch = previous.epoch

\* C14 as written: a load_checkpoint of a path that is no file fails with
\* CheckpointNotFoundError and leaves the model state, the optimizer
\* state, iteration and epoch unchanged.
C14_FailsWithCheckpointNotFoundError ==
    previous.error # "none" =>
        /\ previous.error = "CheckpointNotFoundError"
        /\ FailedLoadChangedNothing

\* What load_checkpoint yields from the artifact a save_checkpoint of the
\* present trainer writes.
SavedThenLoaded == load_checkpoint(save_checkpoint[iteration])

\* The load_checkpoint call that last succeeded read the artifact of the
\* iteration it found the trainer at: the one the final save_checkpoint of
\* train() had just written.
LoadedLastSaved == previous.resumed /\ previous.loaded = previous.iteration

\* C15: in every trainer state, load_checkpoint of the artifact that
\* save_checkpoint writes yields the parameters and the optimizer state of
\* before the save, the saved epoch and the saved iteration + 1; and a
\* trainer that has loaded the artifact just saved holds exactly these.
C15_SaveLoadRoundTrip ==
    /\ SavedThenLoaded.params = params
    /\ SavedThenLoaded.optimizer = optimizer
    /\ SavedThenLoaded.epoch = epoch
    /\ SavedThenLoaded.iteration = iteration + 1
    /\ (LoadedLastSaved /\ pc = "constructed") =>
        /\ params = previous.params
        /\ optimizer = previous.optimizer
        /\ epoch = previous.epoch
        /\ iteration = previous.iteration + 1

C15_Witness ==
    /\ LoadedLastSaved
    /\ pc = "constructed"
    /\ Len(params) = 2
    /\ optimizer = 2
    /\ iteration = 3

\* The examples train() applies to the parameters when it is not
\* interrupted: the training sequence 1 .. train_iterator, passed again in
\* every epoch.  Applied(n) is the parameters after n training steps.
Applied(n) == [i \in 1 .. n |-> ((i - 1) % train_iterator) + 1]

\* The run that ended before the load was an uninterrupted run of N steps,
\* N its final iteration, and the load took the checkpoint of a step k < N.
ResumedFromEarlierStep ==
    /\ previous.resumed
    /\ previous.loaded < previous.iteration
    /\ previous.params = Applied(previous.iteration)

\* C16 as written: a run resumed through load_checkpoint from the
\* checkpoint saved at step k < N has, where it enters the loop pass of
\* iteration N, applied the examples of the uninterrupted run of N steps
\* and holds its final parameters.
C16_ResumeEquivalence ==
    (/\ ResumedFromEarlierStep
     /\ iteration = previous.iteration
     /\ pc = "constructed" \/ (pc = "pre" /\ hidx = 1)) =>
        params = previous.params

----------------------------------------------------------------------------
(* The latest and best pointers of the checkpoints directory.              *)

\* The iteration of the save_checkpoint call made last.
LastSaved == log[CHOOSE i \in Events("save_checkpoint") :
                    \A j \in Events("save_checkpoint") : j <= i].it

\* C17 as written: after a save_checkpoint the directory has the latest
\* pointer and it resolves to the numbered artifact just written, and every
\* latest or best pointer of the directory resolves to a numbered artifact
\* that is in the directory.
C17_LatestPointsAtNewest ==
    /\ Happened("save_checkpoint") =>
        /\ "ckpt_latest" \in DOMAIN Directory
        /\ Directory["ckpt_latest"] = CheckpointName(LastSaved)
    /\ \A name \in DOMAIN Directory :
        Directory[name] \in {CheckpointName(i) : i \in DOMAIN files}

\* C18 as written: a save_checkpoint that follows the first summarized
\* validation value, which is better than no recorded best, leaves the best
\* pointer of the loss in the directory.
C18_BestPointerFollowsImprovement ==
    (\E d \in Events("dump") :
        /\ log[d].hook = ValidationId
        /\ \E s \in Events("save_checkpoint") : d < s) =>
        "ckpt_best_loss" \in DOMAIN Directory

----------------------------------------------------------------------------
(* The mode of the model.                                                  *)

\* C19: the model is in evaluation mode exactly while a validation pass is
\* under way.  When the pass has ended, by exhausting the validation
\* sequence or by an exception of a validation step, the model is in
\* training mode again: every validation step starts in evaluation mode
\* and every training step in training mode.
C19_ModeFollowsValidation ==
    /\ pc = "validating" => mode = "eval"
    /\ pc # "validating" => mode = "train"
    /\ Happened("validation_step_failed") =>
        mode = "train" /\ pc \in {"finally_dump", "finally_save", "raised"}

\* A run with a completed validation pass, training steps after it, and a
\* later validation pass that a failing step ended.
C19_Witness ==
    /\ pc = "raised"
    /\ mode = "train"
    /\ \E d \in Events("dump") :
        /\ log[d].hook = ValidationId
        /\ \E s \in Events("optimizer_step") :
            /\ d < s
            /\ \E f \in Events("validation_step_failed") : s < f

----------------------------------------------------------------------------
(* The frame of the model parameters.                                      *)

\* The step of train() that calls the real optimizer.step.
OptimizerStepTaken ==
    /\ pc = "train_step"
    /\ pc' \in {"post", "finally_dump"}
    /\ ~optimizer_mocked
    /\ \E k \in 1 .. Len(step_calls') : step_calls'[k] = "optimizer_step"

\* C20: during train() the parameters change only in the step that calls
\* optimizer.step: hook dispatch, validation steps that complete or fail,
\* checkpoint saves and the final cleanup leave them as they are; with
\* optimizer.step replaced by a mock the parameters are at every point of
\* train(), and after it, the parameters of before train().
C20_OnlyOptimizerStepChangesParams ==
    /\ [][(InTrain /\ params' # params) => OptimizerStepTaken]_vars
    /\ [](optimizer_mocked => params = <<>>)

\* The run of test_run with the mock: four calls of optimizer.step, a
\* completed validation pass, checkpoints saved, train() returned.
C20_Witness ==
    /\ optimizer_mocked
    /\ pc = "returned"
    /\ NSteps = 4
    /\ params = <<>>
    /\ Happened("validation_step")
    /\ Cardinality(DOMAIN files) >= 2

----------------------------------------------------------------------------
(* StopTraining and the training step.                                     *)

\* C21: when train() ends through StopTraining, the signal was raised in
\* the pre_function dispatch at the head of a loop pass, by the hook whose
\* pre_function was running, and every training step that started before
\* it is complete: its zero_grad is followed by its optimizer step, and
\* every hook's post_function has run for it.  No training step or
\* post_function follows the signal.
C21_StopOnlyAtIterationBoundary ==
    exc = "StopTraining" =>
        LET stops == Events("StopTraining")
            posts == Cardinality(Events("post"))
        IN  /\ Cardinality(stops) = 1
            /\ pc \in {"finally_dump", "finally_save", "returned"}
            /\ \A s \in stops :
                /\ s > 1
                /\ log[s - 1].op = "pre"
                /\ log[s - 1].hook = log[s].hook
                /\ SamePass(s - 1, s)
                /\ \A j \in s + 1 .. Len(log) :
                    log[j].op \in {"dump_summary", "save_checkpoint"}
            /\ \A z \in Events("zero_grad") : log[z + 1].op = "optimizer_step"
            /\ ~Happened("train_step_failed")
            /\ posts = NSteps * Len(hooks)

C21_Witness ==
    /\ pc = "returned"
    /\ exc = "StopTraining"
    /\ NSteps = 3
    /\ max_step = [period |-> 3, unit |-> "iteration"]
    /\ Cardinality(Events("post")) = 3 * Len(hooks)

----------------------------------------------------------------------------
(* The summary accumulators.                                               *)

\* The id of the SummaryHook.
SummaryId == Len(user_hooks) + 1

\* C22: after train() has returned, the accumulator of the SummaryHook and
\* the accumulator of the ValidationHook are empty: all that post_function
\* and the validation steps collected has been dumped and cleared.
C22_SummaryEmptyAfterTrain ==
    pc = "returned" =>
        /\ summary.training = 0
        /\ summary.validation = 0

\* A run that returned whose summary trigger never fired: the entries of
\* its training steps were cleared by the final dump_summary, those of its
\* validation steps by the dump at the end of the validation pass.
C22_Witness ==
    /\ pc = "returned"
    /\ NSteps = 2
    /\ Happened("validation_step")
    /\ \A d \in Events("dump") : log[d].hook # SummaryId
    /\ summary = [training |-> 0, validation |-> 0]

----------------------------------------------------------------------------
(* The timer scopes.                                                       *)

\* An exception starts to propagate in this step.
Raised == exc = "none" /\ exc' # "none"

\* C23: a timer scope appends exactly one sample to its name when its
\* block completes, and nothing when the block raises.  The scopes of the
\* loop: a fetched example completes time_per_data_loading, a completed
\* train_step completes time_per_train_step, the end of the post_function
\* loop and the break at the end of an epoch complete time_per_step, the
\* end of a validation pass completes validation_time.  A step in which an
\* exception starts to propagate leaves every sample of every name as it
\* was, and the exception goes on to the finally clause of train().
C23_TimerScopeSamples ==
    [][/\ \A name \in TimerNames :
            timings'[name] \in {timings[name], timings[name] + 1}
       /\ Raised => (timings' = timings /\ pc' = "finally_dump")
       /\ (pc = "fetch" /\ pc' = "train_step") =>
            timings' = AppendSample(timings, "time_per_data_loading")
       /\ (pc = "train_step" /\ pc' = "post") =>
            timings' = AppendSample(timings, "time_per_train_step")
       /\ (pc = "post" /\ pc' = "pre") =>
            timings' = AppendSample(timings, "time_per_step")
       /\ (pc = "fetch" /\ pc' = "pre") =>
            timings' = AppendSample(timings, "time_per_step")
       /\ (pc = "validating" /\ pc' \in {"pre", "checkpoint"}) =>
            timings' = AppendSample(timings, "validation_time")]_vars

\* One training step completed, the next one raised inside the scopes
\* time_per_train_step and time_per_step.
C23_Witness ==
    /\ pc = "raised"
    /\ Happened("train_step_failed")
    /\ timings["time_per_data_loading"] = 2
    /\ timings["time_per_train_step"] = 1
    /\ timings["time_per_step"] = 1

----------------------------------------------------------------------------
(* The trigger, polled by the loop of a fresh run.                         *)

\* The counter of the checkpoint trigger's unit at the poll logged at i.
PolledAt(i) == Counter(checkpoint_step.unit, log[i].it, log[i].ep)

\* The polls of the checkpoint trigger that returned true.
TruePolls == {i \in Events("checkpoint_trigger") : log[i].hook = 1}

\* C24: a fresh trigger polled with non-decreasing counters returns true
\* exactly once per period boundary its counter has crossed: at the first
\* poll on the boundary, never at a later poll on the same boundary and
\* never between boundaries.  Stated of the checkpoint trigger, which
\* line 175 polls in every loop pass (twice at the same iteration when an
\* epoch ends), and of the marker of every trigger.
C24_OncePerBoundary ==
    (Fresh /\ pc # "constructed") =>
        LET polls == Events("checkpoint_trigger")
            period == checkpoint_step.period
        IN  /\ \A i \in polls :
                log[i].hook = 1 <=>
                    /\ PolledAt(i) > 0
                    /\ PolledAt(i) % period = 0
                    /\ \A j \in polls : j < i => PolledAt(j) # PolledAt(i)
            /\ \A i, j \in polls : i < j => PolledAt(i) <= PolledAt(j)
            /\ \A i, j \in TruePolls : PolledAt(i) = PolledAt(j) => i = j
            /\ \A p \in polls : \A b \in 1 .. PolledAt(p) :
                    b % period = 0 =>
                        Cardinality({i \in TruePolls : PolledAt(i) = b}) = 1
            /\ \A t \in TriggerNames :
                LET step == CASE t = "summary" -> summary_step
                              [] t = "validation" -> validate_step
                              [] t = "stop" -> max_step
                              [] OTHER -> checkpoint_step
                    marker == Counter(step.unit, last[t].iteration, last[t].epoch)
                    now == Counter(step.unit, iteration, epoch)
                IN  /\ marker % step.period = 0
                    /\ marker <= now
                    /\ now - marker <= step.period

C24_Witness ==
    /\ Fresh
    /\ checkpoint_step = [period |-> 1, unit |-> "iteration"]
    /\ {PolledAt(i) : i \in TruePolls} = {1, 2, 3}
    /\ Cardinality(TruePolls) = 3
    /\ \E i \in TruePolls : \E j \in Events("checkpoint_trigger") :
        i < j /\ PolledAt(j) = PolledAt(i) /\ log[j].hook = 0
----------------------------------------------------------------------------
(* The first loop pass of train().                                         *)

\* The calls logged in the first loop pass: the pass that runs at the
\* counters train() was called with (every later pass has a larger
\* iteration or a larger epoch).
FirstPass ==
    {i \in 1 .. Len(log) :
        log[i].it = start.iteration /\ log[i].ep = start.epoch}

\* A firing of a trigger: the summary dump, the validation pass, the stop,
\* a true return of the checkpoint trigger.
Firing(i) ==
    \/ log[i].op \in {"dump", "validate", "StopTraining"}
    \/ log[i].op = "checkpoint_trigger" /\ log[i].hook = 1

\* C25: set_last(iteration, epoch) before the loop (lines 162-164) anchors
\* every trigger at the counters train() starts with, so no trigger fires
\* in the first loop pass: no summary dump, no validation and no
\* trigger-driven checkpoint for a period that was completed before the
\* run was resumed.
C25_NoFiringInFirstPass ==
    /\ pc # "constructed" => \A i \in FirstPass : ~Firing(i)
    /\ pc = "pre" /\ iteration = start.iteration /\ epoch = start.epoch =>
        \A t \in TriggerNames : last[t] = SetLast(iteration, epoch)

C25_Witness ==
    /\ start = SetLast(1, 1)
    /\ validate_step = [period |-> 1, unit |-> "epoch"]
    /\ checkpoint_step = [period |-> 1, unit |-> "iteration"]
    /\ \E i \in FirstPass : log[i].op = "checkpoint_trigger"
    /\ \E i \in FirstPass : log[i].op = "optimizer_step"
    /\ \E i \in Events("validate") : log[i].ep = 2
    /\ \E i \in Events("checkpoint_trigger") : log[i].hook = 1 /\ log[i].it = 2
----------------------------------------------------------------------------
(* The loop pass that finds the training sequence exhausted.               *)

\* The calls of a training step and of the dispatch that follows it.
StepOps == {"fetch", "zero_grad", "optimizer_step", "train_step_failed", "post"}

\* C27: when next(data_iterator) raises StopIteration at iteration > 0,
\* the loop pass ends there: it has made no training step and no
\* post_function call, the next pass runs at epoch + 1 and at the same
\* iteration over a new iterator, and the first step of the new epoch
\* takes the first example at that iteration.
C27_EpochEndPass ==
    \A b \in Events("break") :
        /\ log[b].it > 0
        /\ \A j \in 1 .. Len(log) :
            SamePass(j, b) => log[j].op \notin StepOps
        /\ \A j \in b + 1 .. Len(log) :
            /\ log[j].ep > log[b].ep
            /\ log[j].it >= log[b].it
        /\ b < Len(log) =>
            /\ log[b+1].op = "pre"
            /\ log[b+1].ep = log[b].ep + 1
            /\ log[b+1].it = log[b].it
        /\ \A f \in Events("fetch") :
            (f > b /\ \A g \in Events("fetch") : g > b => f <= g) =>
                /\ log[f].hook = 1
                /\ log[f].it = log[b].it
                /\ log[f].ep = log[b].ep + 1
        /\ b = Len(log) =>
            /\ pc = "pre" /\ hidx = 1
            /\ epoch = log[b].ep + 1
            /\ iteration = log[b].it
            /\ dataPos = 0
        /\ b > 1 /\ log[b-1].op \in {"checkpoint_trigger", "save_checkpoint"}

C27_Witness ==
    /\ train_iterator = 2
    /\ \E b \in Events("break") :
        /\ log[b].it = 2 /\ log[b].ep = 0
        /\ \E f \in Events("fetch") :
            f > b /\ log[f].hook = 1 /\ log[f].it = 2 /\ log[f].ep = 1
        /\ \E o \in Events("optimizer_step") : o > b /\ log[o].ep = 1
----------------------------------------------------------------------------
(* The loss of a training step.                                            *)

\* w(k): the configured weight of the loss k, 1 without loss_weights.
LossWeight(k) == IF loss_weights.none THEN 1 ELSE loss_weights.weight[k]

\* The sum of f over the keys that are at least k.
RECURSIVE SumFrom(_, _)
SumFrom(f, k) ==
    IF k > MaxLosses THEN 0
    ELSE (IF k \in DOMAIN f THEN f[k] ELSE 0) + SumFrom(f, k + 1)

\* How often the latest training step has made the call op.
CallCount(op) == Cardinality({k \in 1 .. Len(step_calls) : step_calls[k] = op})

\* C28: the loss whose backward() a training step calls is the sum over
\* the keys k of review['losses'] of w(k) * losses[k], with w(k) the
\* configured weight, or 1 when loss_weights is None (there is then exactly
\* one loss); a step calls backward at most once, and exactly once when it
\* reaches optimizer.step.
C28_WeightedLoss ==
    /\ Len(backpropagated) <= 1
    /\ CallCount("backward") <= 1
    /\ CallCount("optimizer_step") = 1 =>
        /\ CallCount("backward") = 1
        /\ Len(backpropagated) = 1
    /\ backpropagated # <<>> =>
        /\ CallCount("backward") = 1
        /\ DOMAIN losses # {}
        /\ loss_weights.none => Cardinality(DOMAIN losses) = 1
        /\ backpropagated[1] =
            SumFrom([k \in DOMAIN losses |-> LossWeight(k) * losses[k]], 1)

C28_Witness ==
    /\ pc = "post"
    /\ DOMAIN losses = {1, 2}
    /\ ~loss_weights.none
    /\ loss_weights.weight = [k \in {1, 2} |-> 2]
    /\ backpropagated = <<6>>
    /\ CallCount("optimizer_step") = 1
----------------------------------------------------------------------------
(* Reviews that backward cannot sum.                                       *)

\* The review has no loss, or a loss that the configured loss_weights
\* does not cover.
InvalidReview ==
    \/ DOMAIN losses = {}
    \/ /\ ~loss_weights.none
       /\ ~(DOMAIN losses \subseteq DOMAIN loss_weights.weight)

\* The error by which backward itself rejects a review (lines 252-255);
\* every other exception of backward is raised by the operation it was
\* attempting.
ConfigurationErrors == {"Exception"}

\* C29: a training step whose review has no loss, or a loss without a
\* weight in the configured loss_weights, fails in backward with a
\* configuration error, before any loss is backpropagated and before
\* optimizer.step.
C29_InvalidReviewIsConfigurationError ==
    (InvalidReview /\ CallCount("backward") = 1) =>
        /\ StepEndedIn("backward")
        /\ backpropagated = <<>>
        /\ ~Happened("optimizer_step")
        /\ pc \in {"finally_dump", "finally_save", "raised"}
        /\ exc \in ConfigurationErrors
----------------------------------------------------------------------------
(* The order of a training step.                                           *)

\* C30: a training step makes each of its calls once, in the order fetch,
\* batch_to_device, zero_grad, forward, review, backward, clip_grad,
\* optimizer.step, nested_update, and the post_function dispatch follows;
\* a step in which forward, review, backward or clip_grad raises ends at
\* that call: it reaches neither optimizer.step nor a post_function.  (A
\* step whose merge raises has made every call and reaches no post_function.)
C30_StepOrder ==
    LET order == <<"batch_to_device", "zero_grad", "forward", "review",
                   "backward", "clip_grad", "optimizer_step", "nested_update">>
        \* The call logged at i is preceded by the fetch and the zero_grad
        \* of its own pass and example, and by nothing else of the pass.
        AfterFetch(i) ==
            /\ i > 2
            /\ log[i-2].op = "fetch" /\ log[i-1].op = "zero_grad"
            /\ log[i-2].hook = log[i].hook /\ log[i-1].hook = log[i].hook
            /\ SamePass(i-2, i) /\ SamePass(i-1, i)
    IN  /\ Len(step_calls) <= Len(order)
        /\ step_calls = SubSeq(order, 1, Len(step_calls))
        /\ pc = "post" => step_calls = order
        /\ \A o \in Events("optimizer_step") :
            /\ AfterFetch(o)
            /\ (o = Len(log) \/ log[o+1].op # "train_step_failed") =>
                /\ \A k \in 1 .. Len(hooks) :
                    o + k <= Len(log) =>
                        /\ log[o+k].op = "post"
                        /\ log[o+k].hook = hooks[k].id
                        /\ SamePass(o+k, o)
                /\ o + Len(hooks) < Len(log) =>
                    /\ log[o + Len(hooks) + 1].op = "pre"
                    /\ log[o + Len(hooks) + 1].it = log[o].it + 1
        /\ \A i \in 2 .. Len(log) :
            /\ log[i].op = "post" => log[i-1].op \in {"post", "optimizer_step"}
            /\ log[i].op = "zero_grad" => log[i-1].op = "fetch"
            /\ log[i].op = "optimizer_step" => log[i-1].op = "zero_grad"
            /\ log[i].op = "train_step_failed" =>
                log[i-1].op \in {"zero_grad", "optimizer_step"}
            /\ log[i-1].op = "fetch" => log[i].op = "zero_grad"
            /\ log[i-1].op = "zero_grad" =>
                log[i].op \in {"optimizer_step", "train_step_failed"}
        /\ \A x \in Events("train_step_failed") :
            /\ \A j \in x + 1 .. Len(log) :
                log[j].op \in {"dump_summary", "save_checkpoint"}
            /\ pc \in {"finally_dump", "finally_save", "raised"}
            /\ IF log[x-1].op = "optimizer_step"
               THEN \* the merge of line 217 raised: every call was made
                    /\ SamePass(x-1, x)
                    /\ step_calls = order
               ELSE /\ AfterFetch(x)
                    /\ step_calls[Len(step_calls)]
                        \in {"forward", "review", "backward", "clip_grad"}
                    /\ CallCount("optimizer_step") = 0

C30_Witness ==
    /\ pc = "raised"
    /\ StepEndedIn("clip_grad")
    /\ backpropagated # <<>>
    /\ Cardinality(Events("optimizer_step")) = 2
    /\ Cardinality(Events("post")) = 2 * Len(hooks)
----------------------------------------------------------------------------
(* The summary of clip_grad.                                               *)

\* The names the claim gives to the entries of a clip norm.
ClaimedScalars(prefix, grad_norm) ==
    IF grad_norm.kind = "scalar"
    THEN {Prefix_(prefix) \o "grad_norm"}
    ELSE {Prefix_(prefix) \o "grad_norm_" \o flatten(p) : p \in grad_norm.leaves}

ClaimedHistograms(prefix, grad_norm) ==
    {name \o "_" : name \in ClaimedScalars(prefix, grad_norm)}

\* C31: clip_grad returns, for a scalar clip norm, exactly the scalar
\* 'grad_norm' and the histogram 'grad_norm_', and for a mapping exactly
\* one scalar 'grad_norm_<key>' and one histogram 'grad_norm_<key>_' per
\* flattened key, each after '<prefix>_' when a prefix is given; it has no
\* further entry, and distinct keys have distinct names.
C31_ClipGradSummary ==
    (invoked.op = "clip_grad" /\ invoked.grad_norm.kind \in {"scalar", "dict"}) =>
        /\ invoked.outcome.error = "none"
        /\ invoked.outcome.scalars
            = ClaimedScalars(invoked.prefix, invoked.grad_norm)
        /\ invoked.outcome.histograms
            = ClaimedHistograms(invoked.prefix, invoked.grad_norm)
        /\ Cardinality(invoked.outcome.scalars)
            = IF invoked.grad_norm.kind = "scalar" THEN 1
              ELSE Cardinality(invoked.grad_norm.leaves)
----------------------------------------------------------------------------
(* save_checkpoint and the placement of model and optimizer.               *)

\* This step ran save_checkpoint.
SaveCheckpointRan ==
    /\ Len(log') > Len(log)
    /\ log'[Len(log')].op = "save_checkpoint"

AcceleratorPlacement == cuda(gpu_device)

\* C32: on a trainer placed on an accelerator every artifact was serialized
\* with model and optimizer on the host, and after save_checkpoint (as in
\* every other state) model and optimizer are on the configured accelerator
\* device; on any trainer a step that runs save_checkpoint leaves iteration,
\* epoch, parameter values and optimizer state unchanged.
C32_SaveCheckpointPlacement ==
    /\ [](use_cuda =>
            /\ \A i \in DOMAIN files : files[i].device = cpu
            /\ device = AcceleratorPlacement)
    /\ [][SaveCheckpointRan =>
            UNCHANGED <<iteration, epoch, params, optimizer>>]_vars

C32_Witness ==
    /\ use_cuda
    /\ gpu_device = 1
    /\ Len(log) > 0
    /\ log[Len(log)].op = "save_checkpoint"
    /\ iteration > 1
    /\ iteration \in DOMAIN files
    /\ files[iteration].device = cpu
    /\ files[iteration].model = params
    /\ device = [model |-> "cuda:1", optimizer |-> "cuda:1"]
----------------------------------------------------------------------------
(* The iteration counter and the optimizer steps of one train() call.      *)

\* The head of the inner for statement: the pre_function dispatch is about
\* to start.
LoopHead == pc = "pre" /\ hidx = 1

\* C33: at every loop head of train(), before the pre_function dispatch,
\* iteration is the iteration train() started with plus the number of
\* optimizer steps completed since, and no iteration index has received
\* more than one optimizer step in this train() call.
C33_IterationCountsSteps ==
    /\ LoopHead => iteration = start.iteration + NSteps
    /\ \A i, j \in Events("optimizer_step") : log[i].it = log[j].it => i = j

C33_Witness ==
    /\ LoopHead
    /\ start.iteration = 1
    /\ NSteps = 2
    /\ iteration = 3
    /\ NBreaks > 0
----------------------------------------------------------------------------
(* What a numbered artifact holds.                                         *)

\* The model state of a fresh run after n completed optimizer steps.
StateAfter(n) == IF optimizer_mocked THEN <<>> ELSE Applied(n)

\* C34: in a fresh run every artifact ckpt_i, written in the loop or by the
\* final save, holds the model state reached after exactly i completed
\* optimizer steps (step i is not applied in it); an artifact written again
\* for the same iteration therefore holds the same model state as before.
C34_ArtifactHoldsStateBeforeStep ==
    Fresh => \A i \in DOMAIN files : files[i].model = StateAfter(i)
----------------------------------------------------------------------------
(* Termination of train().                                                 *)

Terminated == pc \in {"returned", "raised"}

----------------------------------------------------------------------------
(* The time length of Conv1d.                                              *)

\* ceil(a / b) for positive b.
CeilDiv(a, b) == -((-a) \div b)

\* The padding of the claim: kernel - 1 - ((L - 1) mod stride) frames for
\* the kernel handed to Pad, all in front, all at the end, or split with
\* the smaller half in front.
ClaimedPad(kernel, stride, side, length) ==
    LET total == kernel - 1 - ((length - 1) % stride)
    IN  CASE side = "front" -> <<total, 0>>
          [] side = "both" -> <<total \div 2, total - (total \div 2)>>
          [] side = "end" -> <<0, total>>

\* C36: for every time length L >= 1, kernel size, dilation and stride >= 1
\* and every padding side, a Conv1d that is not transposed gives the time
\* length ceil(L / stride), its Pad adding kernel - 1 - ((L - 1) mod stride)
\* frames in total, split as the side says, and a transposed Conv1d followed
\* by its Cut gives the time length L * stride.
C36_Conv1dLength ==
    invoked.op = "Conv1d" =>
        IF invoked.transpose
        THEN invoked.outcome.length = invoked.length * invoked.stride
        ELSE /\ invoked.outcome.length = CeilDiv(invoked.length, invoked.stride)
             /\ invoked.outcome.pad =
                    ClaimedPad(DilatedKernel(invoked.kernel_size,
                                             invoked.dilation),
                               invoked.stride, invoked.padding, invoked.length)

\* The run behind C35's counterexample, for every number of epochs: an
\* empty training sequence on a trainer with loaded counters and a max_step
\* counted in iterations.  No pass executes a step, the iteration stays the
\* loaded one and StopTraining is never raised: only an exception of a
\* validation step ends train().
EmptyEpochsNeverStop ==
    (train_iterator = 0 /\ start.iteration > 0 /\ max_step.unit = "iteration") =>
        /\ iteration = start.iteration
        /\ NSteps = 0
        /\ ~Happened("StopTraining")
        /\ Terminated => exc \notin {"none", "StopTraining"}
====
